---- MODULE Spec2Model ----
(***************************************************************************)
(* A model of the ray tracer's core: the tile partitioner of the renderer  *)
(* (renderer.rs), the bounding volume hierarchy (bvh.rs, aabb.rs,          *)
(* hittable.rs) and the hash-based ray path predictor (hrpp.rs) that       *)
(* worker threads share behind one mutex per predictor.                    *)
(***************************************************************************)
EXTENDS Integers, Sequences, FiniteSets, TLC

VARIABLES
    \* ---- renderer.rs: Renderer fields, the arguments of render, Tile::tile
    image_width, image_height, tile_width, tile_height, tiles, tile_pc,
    \* ---- renderer.rs: Renderer::render after its first statement: the
    \*      `threads` argument, the main thread's position, the ArrayQueue of
    \*      tiles, the number of live Sender clones, the messages in the
    \*      channel, the framebuffer `colors`, the worker threads spawned so
    \*      far (each with its position in render_tile, its tile and its
    \*      tile_colors) and what write_ppm has written
    threads, main_pc, tiles_queue, senders, channel, colors, workers, ppm,
    \* ---- history: per tile (by its index in `tiles`) how often it was
    \*      popped, rendered, sent and received, and per pixel (by its index
    \*      in the framebuffer) how often the merge has written it
    popped, rendered, sent, received, writes,
    \* ---- one call of a function that has no state: the function, its
    \*      arguments and what it returned
    fn, args, ret,
    \* ---- ray.rs: one call of Ray::ray_color and the calls it makes of
    \*      itself: the position in the innermost invocation and its `depth`,
    \*      the invocations waiting for it (each with the material it hit and
    \*      the attenuation of its scatter record), the value the last
    \*      returned invocation gave back, and, as history, the number of
    \*      world.hit queries so far and what the last returned invocation hit
    shade,
    \* ---- bvh.rs: the lists given to Bvh::new and the Bvhs built from them
    \*      (lists[id] and bvhs[id] belong to the Bvh with that id)
    lists, bvhs,
    \* ---- one ray against one Bvh and against the list it was built from
    q_ray, q_t_min, q_t_max, bvh_hit, list_hit, bvh_pc,
    \* ---- the render: the world list, the registry of predictors
    \*      (Arc<Option<AHashMap<BvhId, Mutex<Predictor>>>>), the owner of each
    \*      predictor's mutex, and per worker thread the stack of the Bvh::hit
    \*      invocations it is in, and the number of rays cast so far
    world, predictors, mutex, stack, calls,
    \* ---- history: per Bvh the number of Bvh::hit invocations, and the
    \*      <<Bvh, fingerprint, leaf node>> of every hit a traversal from the
    \*      root has found
    hit_calls, found

pipeline_vars ==
    <<threads, main_pc, tiles_queue, senders, channel, colors, workers, ppm,
      popped, rendered, sent, received, writes>>
call_vars == <<fn, args, ret, shade>>
tile_vars ==
    <<image_width, image_height, tile_width, tile_height, tiles, tile_pc, pipeline_vars,
      call_vars>>
scene_vars == <<lists, bvhs>>
query_vars == <<q_ray, q_t_min, q_t_max, bvh_hit, list_hit, bvh_pc>>
render_vars == <<world, predictors, mutex, stack, calls, hit_calls, found>>
vars == <<tile_vars, scene_vars, query_vars, render_vars>>

(***************************************************************************)
(* Bounds                                                                  *)
(***************************************************************************)
MaxImage == 5
MaxTile == 3
\* The longest list given to Bvh::new.
MaxObjects == 3
\* The number of rays the worker threads cast.
MaxCalls == 3
\* The worker threads.
Workers == {"w1", "w2"}
\* The sides of the image Renderer::render renders, the sides of its tiles
\* and the values of its `threads` argument.
MaxFrameWidth == 3
MaxFrameHeight == 2
MaxFrameTile == 2
MaxThreads == 2
\* The greatest coordinate of the boxes given to Aabb::union.
MaxCoordinate == 1
\* The greatest `depth` ray_color is called with (the bounce limit).
MaxDepth == 3
\* The longest list of a Bvh that go_up_level walks in, and the greatest
\* number of levels it is asked to go up.
MaxLeaves == 5
MaxLevel == 3

(***************************************************************************)
(* Floating point values. Coordinates and ray parameters are integers;     *)
(* the two infinities and NaN are kept apart from them because the slab    *)
(* test and the rectangles divide by direction components that may be 0.   *)
(***************************************************************************)
\* f32::INFINITY / f64::INFINITY: above every finite value of the model.
Infinity == 1000000
NegInfinity == -Infinity
NaN == Infinity + 1

IsNaN(a) == a = NaN
IsInf(a) == a = Infinity \/ a = NegInfinity
Sign(a) == IF a > 0 THEN 1 ELSE IF a < 0 THEN -1 ELSE 0

\* IEEE comparisons: every comparison with NaN is false.
FLt(a, b) == ~IsNaN(a) /\ ~IsNaN(b) /\ a < b
FGt(a, b) == FLt(b, a)

\* IEEE a * b
FMul(a, b) ==
    IF IsNaN(a) \/ IsNaN(b) THEN NaN
    ELSE IF IsInf(a) \/ IsInf(b)
         THEN IF a = 0 \/ b = 0 THEN NaN ELSE Sign(a) * Sign(b) * Infinity
         ELSE a * b

\* IEEE a + b
FAdd(a, b) ==
    IF IsNaN(a) \/ IsNaN(b) THEN NaN
    ELSE IF IsInf(a) /\ IsInf(b) THEN (IF a = b THEN a ELSE NaN)
    ELSE IF IsInf(a) THEN a
    ELSE IF IsInf(b) THEN b
    ELSE a + b

\* IEEE a / d for a finite a and a direction component d in {-1, 0, 1}
FDiv(a, d) ==
    IF d = 0 THEN (IF a = 0 THEN NaN ELSE Sign(a) * Infinity) ELSE a * d

(***************************************************************************)
(* Option<T>                                                               *)
(***************************************************************************)
None == [some |-> FALSE]
Some(v) == [some |-> TRUE, val |-> v]
IsSome(o) == o.some

(***************************************************************************)
(* ray.rs: Ray. Vectors are triples, component i of the code is v[i + 1].  *)
(***************************************************************************)
Ray_new(origin, direction) == [origin |-> origin, direction |-> direction]

(***************************************************************************)
(* aabb.rs                                                                 *)
(***************************************************************************)
DIMENSIONS == 3

Aabb_new(min, max) == [min |-> min, max |-> max]

\* Aabb::hit: the loop over the axes, one definition per statement of its
\* body. AabbHitFrom is the head of the loop at axis i.
RECURSIVE AabbHitFrom(_, _, _, _, _)

\* `if t_max < t_min { return false; }` and the next axis
AabbNext(box, ray, i, t_min, t_max) ==
    IF FLt(t_max, t_min) THEN FALSE
    ELSE AabbHitFrom(box, ray, i + 1, t_min, t_max)

\* `t_min = if t0 > t_min { t0 } else { t_min }` and the same for t_max
AabbNarrow(box, ray, i, t0, t1, t_min, t_max) ==
    AabbNext(box, ray, i, IF FGt(t0, t_min) THEN t0 ELSE t_min,
                          IF FLt(t1, t_max) THEN t1 ELSE t_max)

\* `let (t0, t1) = if inv_d < 0.0 { (t1, t0) } else { (t0, t1) }`
AabbSwap(box, ray, i, inv_d, t0, t1, t_min, t_max) ==
    IF FLt(inv_d, 0) THEN AabbNarrow(box, ray, i, t1, t0, t_min, t_max)
    ELSE AabbNarrow(box, ray, i, t0, t1, t_min, t_max)

\* `let t0 = (self.min[i] - ray.origin[i]) * inv_d` and the same for t1
AabbSlab(box, ray, i, inv_d, t_min, t_max) ==
    AabbSwap(box, ray, i, inv_d,
             FMul(box.min[i + 1] - ray.origin[i + 1], inv_d),
             FMul(box.max[i + 1] - ray.origin[i + 1], inv_d), t_min, t_max)

AabbHitFrom(box, ray, i, t_min, t_max) ==
    IF i >= DIMENSIONS THEN TRUE
    ELSE AabbSlab(box, ray, i, FDiv(1, ray.direction[i + 1]), t_min, t_max)

\* Aabb::hit
Aabb_hit(box, ray, t_min, t_max) == AabbHitFrom(box, ray, 0, t_min, t_max)

\* f64::min and f64::max on the values of the model.
\* The mutant of the minimum returns its first argument.
Min2First(a, b) == a

Min2(a, b) == IF a < b THEN a ELSE b
Max2(a, b) == IF a > b THEN a ELSE b

\* The mutant returns the first box whenever there is one.
Aabb_union_first(box0, box1) == IF IsSome(box0) THEN box0 ELSE box1

\* Aabb::union
Aabb_union(box0, box1) ==
    IF ~IsSome(box0) /\ ~IsSome(box1) THEN None
    ELSE IF ~IsSome(box0) THEN box1
    ELSE IF ~IsSome(box1) THEN box0
    ELSE Some(Aabb_new([i \in 1..3 |-> Min2(box0.val.min[i], box1.val.min[i])],
                       [i \in 1..3 |-> Max2(box0.val.max[i], box1.val.max[i])]))

(***************************************************************************)
(* hittable.rs: HitRecord. Of a record the model keeps t and the material  *)
(* (which names the surface that was hit).                                 *)
(***************************************************************************)
HitRecord_new(t, material) == [t |-> t, material |-> material]

(***************************************************************************)
(* geometry/rectangle.rs: the three axis-aligned rectangles. A rectangle   *)
(* in the plane (axis = k) spans [lo1, hi1] x [lo2, hi2] on the two other  *)
(* axes a1 < a2.                                                           *)
(***************************************************************************)
\* `if x < self.x0 || x > self.x1 || y < self.y0 || y > self.y1 { return None; }`
\* and the record
Rect_inside(rect, t, p1, p2) ==
    IF FLt(p1, rect.lo1) \/ FGt(p1, rect.hi1)
       \/ FLt(p2, rect.lo2) \/ FGt(p2, rect.hi2) THEN None
    ELSE Some(HitRecord_new(t, rect.material))

\* `if t < t_min || t > t_max { return None; }` and the point of the plane
Rect_at(rect, a1, a2, ray, t_min, t_max, t) ==
    IF FLt(t, t_min) \/ FGt(t, t_max) THEN None
    ELSE Rect_inside(rect, t,
                     FAdd(ray.origin[a1 + 1], FMul(t, ray.direction[a1 + 1])),
                     FAdd(ray.origin[a2 + 1], FMul(t, ray.direction[a2 + 1])))

\* `let t = (self.z - ray.origin.z) / ray.direction.z`, for XyRect
Rect_hit(rect, axis, a1, a2, ray, t_min, t_max) ==
    Rect_at(rect, a1, a2, ray, t_min, t_max,
            FDiv(rect.k - ray.origin[axis + 1], ray.direction[axis + 1]))

\* XyRect::hit, XzRect::hit, YzRect::hit
XyRect_hit(rect, ray, t_min, t_max) == Rect_hit(rect, 2, 0, 1, ray, t_min, t_max)
XzRect_hit(rect, ray, t_min, t_max) == Rect_hit(rect, 1, 0, 2, ray, t_min, t_max)
YzRect_hit(rect, ray, t_min, t_max) == Rect_hit(rect, 0, 1, 2, ray, t_min, t_max)

XyRect_new(x0, x1, y0, y1, z, material) ==
    [kind |-> "XyRect", lo1 |-> x0, hi1 |-> x1, lo2 |-> y0, hi2 |-> y1, k |-> z,
     material |-> material]
XzRect_new(x0, x1, z0, z1, y, material) ==
    [kind |-> "XzRect", lo1 |-> x0, hi1 |-> x1, lo2 |-> z0, hi2 |-> z1, k |-> y,
     material |-> material]
YzRect_new(y0, y1, z0, z1, x, material) ==
    [kind |-> "YzRect", lo1 |-> y0, hi1 |-> y1, lo2 |-> z0, hi2 |-> z1, k |-> x,
     material |-> material]

Rectangle_hit(rect, ray, t_min, t_max) ==
    IF rect.kind = "XyRect" THEN XyRect_hit(rect, ray, t_min, t_max)
    ELSE IF rect.kind = "XzRect" THEN XzRect_hit(rect, ray, t_min, t_max)
    ELSE YzRect_hit(rect, ray, t_min, t_max)

(***************************************************************************)
(* geometry/cube.rs                                                        *)
(***************************************************************************)
\* Cube::new: the six sides, in the order they are added to `sides`.
Cube_sides(min_point, max_point, material) ==
    << XyRect_new(min_point[1], max_point[1], min_point[2], max_point[2], min_point[3], material),
       XyRect_new(min_point[1], max_point[1], min_point[2], max_point[2], max_point[3], material),
       XzRect_new(min_point[1], max_point[1], min_point[3], max_point[3], min_point[2], material),
       XzRect_new(min_point[1], max_point[1], min_point[3], max_point[3], max_point[2], material),
       YzRect_new(min_point[2], max_point[2], min_point[3], max_point[3], min_point[1], material),
       YzRect_new(min_point[2], max_point[2], min_point[3], max_point[3], max_point[1], material) >>

Cube_new(min_point, max_point, material) ==
    [kind |-> "Cube", min_point |-> min_point, max_point |-> max_point,
     material |-> material]

\* Cube::bounding_box
Cube_bounding_box(cube) == Some(Aabb_new(cube.min_point, cube.max_point))

(***************************************************************************)
(* hittable.rs: the Hittable trait and HittableList. A hittable of the     *)
(* model is a rectangle, a Cube, an Arc<Bvh> (named by the id of the Bvh,  *)
(* `bs` maps the ids to the Bvhs) or an Unbounded object (one whose        *)
(* bounding_box is None, such as an infinite plane).                       *)
(***************************************************************************)
Bvh_ref(id) == [kind |-> "Bvh", id |-> id]

\* BvhNode::bounding_box
BvhNode_bounding_box(node) == Some(node.bounding_box)

\* Bvh::bounding_box
Bvh_bounding_box(bvh) == BvhNode_bounding_box(bvh.nodes[bvh.root_index + 1])

\* Hittable::bounding_box
Hittable_bounding_box(h, bs) ==
    IF h.kind = "Cube" THEN Cube_bounding_box(h)
    ELSE IF h.kind = "Bvh" THEN Bvh_bounding_box(bs[h.id])
    ELSE None

\* Child::Index(i), Child::Hittable(h)
Child_Index(i) == [tag |-> "Index", i |-> i]
Child_Hittable(h) == [tag |-> "Hittable", hittable |-> h]

\* What a traversal hands back: it is finished (with Option<(HitRecord,
\* LeafNodeIdx)>), or it has reached a leaf that is a Bvh and calls Bvh::hit on
\* it. `answers` are the results of the calls the traversal has made so far, in
\* the order it made them: a traversal that resumes after a call runs again
\* from its start and takes the results of its earlier calls from there.
Done(hit, answers) == [status |-> "done", hit |-> hit, answers |-> answers]
Call(id, t_min, t_max) == [status |-> "call", bvh |-> id, t_min |-> t_min, t_max |-> t_max]

\* `if let Some(hit_record) = hit_record { Some((hit_record, LeafNodeIdx(self.idx))) } else { None }`
WithLeaf(hit_record, idx) ==
    IF IsSome(hit_record) THEN Some([rec |-> hit_record.val, leaf |-> idx]) ELSE None

\* The last `match (hit_left, hit_right)` of BvhNode::hit.
\* The mutant keeps the left hit whenever there is one.
CloserLeftAlways(hit_left, hit_right) ==
    IF IsSome(hit_left) THEN hit_left ELSE hit_right

Closer(hit_left, hit_right) ==
    IF ~IsSome(hit_left) /\ ~IsSome(hit_right) THEN None
    ELSE IF ~IsSome(hit_right) THEN hit_left
    ELSE IF ~IsSome(hit_left) THEN hit_right
    ELSE IF FLt(hit_left.val.rec.t, hit_right.val.rec.t) THEN hit_left
    ELSE hit_right

RECURSIVE Hittable_hit(_, _, _, _, _)
RECURSIVE HittableList_fold(_, _, _, _, _, _, _)
RECURSIVE BvhNode_hit(_, _, _, _, _, _)
RECURSIVE Bvh_hit_plain(_, _, _, _, _, _)

\* The mutant keeps the first hit it has found.
HittableList_closure_first(objects, i, closest_yet, hit, ray, t_min, t_max, bs) ==
    IF IsSome(closest_yet)
    THEN HittableList_fold(objects, i + 1, closest_yet, ray, t_min, t_max, bs)
    ELSE HittableList_fold(objects, i + 1, hit, ray, t_min, t_max, bs)

\* The closure of the fold of HittableList::hit: `if let Some(hit_record) = ...
\* { Some(hit_record) } else { closest_yet }`, and the rest of the fold.
HittableList_closure(objects, i, closest_yet, hit, ray, t_min, t_max, bs) ==
    IF IsSome(hit)
    THEN HittableList_fold(objects, i + 1, hit, ray, t_min, t_max, bs)
    ELSE HittableList_fold(objects, i + 1, closest_yet, ray, t_min, t_max, bs)

\* HittableList::hit: the fold that keeps the closest hit so far and gives its
\* t to the next object as t_max.
HittableList_fold(objects, i, closest_yet, ray, t_min, t_max, bs) ==
    IF i > Len(objects) THEN closest_yet
    ELSE HittableList_closure(objects, i, closest_yet,
             Hittable_hit(objects[i], ray, t_min,
                          IF IsSome(closest_yet) THEN closest_yet.val.t ELSE t_max, bs),
             ray, t_min, t_max, bs)

HittableList_hit(objects, ray, t_min, t_max, bs) ==
    HittableList_fold(objects, 1, None, ray, t_min, t_max, bs)

\* Cube::hit: `self.sides.hit(ray, t_min, t_max, predictors)`
Cube_hit(cube, ray, t_min, t_max) ==
    HittableList_hit(Cube_sides(cube.min_point, cube.max_point, cube.material),
                     ray, t_min, t_max, <<>>)

\* Hittable::hit of an object when no Bvh below it has a predictor.
Hittable_hit(h, ray, t_min, t_max, bs) ==
    IF h.kind = "Cube" THEN Cube_hit(h, ray, t_min, t_max)
    ELSE IF h.kind = "Bvh" THEN Bvh_hit_plain(bs, h.id, ray, t_min, t_max, <<>>)
    ELSE IF h.kind = "Unbounded" THEN None
    ELSE Rectangle_hit(h, ray, t_min, t_max)

\* The arm `Child::Hittable(hittable)` of BvhNode::hit.
LeafHit(idx, h, ray, t_min, t_max, answers) ==
    IF h.kind = "Bvh"
    THEN IF answers = <<>> THEN Call(h.id, t_min, t_max)
         ELSE Done(WithLeaf(Head(answers), idx), Tail(answers))
    ELSE Done(WithLeaf(Hittable_hit(h, ray, t_min, t_max, <<>>), idx), answers)

\* `match &self.left` and `match &self.right` of BvhNode::hit: a child that is
\* a node gets t_max_index, a child that is a hittable gets t_max_hittable.
BvhNode_hit_child(nodes, self, child, ray, t_min, t_max_index, t_max_hittable, answers) ==
    IF child.tag = "Index"
    THEN BvhNode_hit(nodes, child.i, ray, t_min, t_max_index, answers)
    ELSE LeafHit(self.idx, child.hittable, ray, t_min, t_max_hittable, answers)

\* The last `match (hit_left, hit_right)` of BvhNode::hit, once the right child
\* has answered.
BvhNode_hit_match(hit_left, hit_right) ==
    IF hit_right.status = "call" THEN hit_right
    ELSE Done(Closer(hit_left.hit, hit_right.hit), hit_right.answers)

\* BvhNode::hit from `let t_max_for_right` on: the right child. A right child
\* that is a node gets t_max, one that is a hittable gets t_max_for_right.
BvhNode_hit_right(nodes, self, hit_left, ray, t_min, t_max) ==
    IF hit_left.status = "call" THEN hit_left
    ELSE BvhNode_hit_match(hit_left,
             BvhNode_hit_child(nodes, self, self.right, ray, t_min, t_max,
                 IF IsSome(hit_left.hit) THEN hit_left.hit.val.rec.t ELSE t_max,
                 hit_left.answers))

\* BvhNode::hit of nodes[k]
BvhNode_hit(nodes, k, ray, t_min, t_max, answers) ==
    IF ~Aabb_hit(nodes[k + 1].bounding_box, ray, t_min, t_max) THEN Done(None, answers)
    ELSE BvhNode_hit_right(nodes, nodes[k + 1],
             BvhNode_hit_child(nodes, nodes[k + 1], nodes[k + 1].left, ray, t_min,
                               t_max, t_max, answers),
             ray, t_min, t_max)

\* `if let Some((hit_record, _)) = ... { Some(hit_record) }`
RecordOf(hit) == IF IsSome(hit) THEN Some(hit.val.rec) ELSE None

\* Bvh::hit without a predictor, once the traversal r from the root has handed
\* back: its record, or the call it makes on a Bvh below and the traversal again.
Bvh_hit_resume(bs, id, ray, t_min, t_max, answers, r) ==
    IF r.status = "done" THEN RecordOf(r.hit)
    ELSE Bvh_hit_plain(bs, id, ray, t_min, t_max,
             Append(answers, Bvh_hit_plain(bs, r.bvh, ray, r.t_min, r.t_max, <<>>)))

\* Bvh::hit when the registry is None ("No predictor for this BVH. Simply
\* traverse the tree and get the result."), the Bvhs below it included.
Bvh_hit_plain(bs, id, ray, t_min, t_max, answers) ==
    Bvh_hit_resume(bs, id, ray, t_min, t_max, answers,
        BvhNode_hit(bs[id].nodes, bs[id].root_index, ray, t_min, t_max, answers))

(***************************************************************************)
(* bvh.rs: construction                                                    *)
(***************************************************************************)
\* `box_a.min()[axis].total_cmp(&box_b.min()[axis])`, after the check that
\* both boxes are there.
min_total_cmp(box_a, box_b, axis) ==
    IF ~IsSome(box_a) \/ ~IsSome(box_b) THEN "panic"
    ELSE IF box_a.val.min[axis + 1] < box_b.val.min[axis + 1] THEN "Less"
    ELSE IF box_a.val.min[axis + 1] > box_b.val.min[axis + 1] THEN "Greater"
    ELSE "Equal"

\* box_compare: the Ordering of the two boxes' min()[axis].
box_compare(a, b, axis, bs) ==
    min_total_cmp(Hittable_bounding_box(a, bs), Hittable_bounding_box(b, bs), axis)

\* objects.sort_by(comparator): a stable sort. InsertSorted puts x behind every
\* element that is not greater than it.
RECURSIVE InsertSorted(_, _, _, _)
InsertSorted(sorted, x, axis, bs) ==
    IF sorted = <<>> THEN <<x>>
    ELSE IF box_compare(x, Head(sorted), axis, bs) = "Less" THEN <<x>> \o sorted
    ELSE <<Head(sorted)>> \o InsertSorted(Tail(sorted), x, axis, bs)

RECURSIVE sort_by(_, _, _, _)
sort_by(objects, n, axis, bs) ==
    IF n = 0 THEN <<>>
    ELSE InsertSorted(sort_by(objects, n - 1, axis, bs), objects[n], axis, bs)

Unbounded(objects, bs) ==
    \E i \in 1..Len(objects) : ~IsSome(Hittable_bounding_box(objects[i], bs))

\* What BvhNode::new_helper hands back: the index of the node it pushed, the
\* nodes, and the random axes it has not drawn yet; or that it panicked; or
\* that it recursed without end.
Built(idx, nodes, axes) == [status |-> "ok", idx |-> idx, nodes |-> nodes, axes |-> axes]
Panicked == [status |-> "panic"]
Overflowed == [status |-> "stack overflow"]

ChildBox(child, nodes, bs) ==
    IF child.tag = "Index" THEN BvhNode_bounding_box(nodes[child.i + 1])
    ELSE Hittable_bounding_box(child.hittable, bs)

\* `nodes[i].parent = Some(new_node_idx)` for a child that is a node. The
\* mutant leaves the child without parent.
SetParentNever(nodes, child, new_node_idx) == nodes

SetParent(nodes, child, new_node_idx) ==
    IF child.tag = "Index"
    THEN [nodes EXCEPT ![child.i + 1].parent = Some(new_node_idx)]
    ELSE nodes

\* The mutant takes the box of the origin for a missing box instead of
\* panicking.
PushBoxedOrDefault(left, right, left_box, right_box, nodes, axes) ==
    Built(Len(nodes),
          Append(SetParent(SetParent(nodes, left, Len(nodes)), right, Len(nodes)),
                 [parent |-> None, idx |-> Len(nodes), left |-> left,
                  right |-> right,
                  bounding_box |->
                      IF IsSome(Aabb_union(left_box, right_box))
                      THEN Aabb_union(left_box, right_box).val
                      ELSE Aabb_new(<<0, 0, 0>>, <<0, 0, 0>>)]),
          axes)

\* BvhNode::new_helper from `let bounding_box` on: the node's box, the
\* children's parent links, the push.
PushBoxed(left, right, left_box, right_box, nodes, axes) ==
    IF ~IsSome(left_box) \/ ~IsSome(right_box) THEN Panicked
    ELSE Built(Len(nodes),
               Append(SetParent(SetParent(nodes, left, Len(nodes)), right, Len(nodes)),
                      [parent |-> None, idx |-> Len(nodes), left |-> left,
                       right |-> right,
                       bounding_box |-> Aabb_union(left_box, right_box).val]),
               axes)

\* BvhNode::new_helper from `let left_box` on.
PushNode(left, right, nodes, axes, bs) ==
    PushBoxed(left, right, ChildBox(left, nodes, bs), ChildBox(right, nodes, bs),
              nodes, axes)

\* The arm `2 =>` of new_helper, c being what the comparator returns.
new_helper_two(objects, c, axes, nodes, bs) ==
    IF c = "panic" THEN Panicked
    ELSE IF c = "Less"
    THEN PushNode(Child_Hittable(objects[1]), Child_Hittable(objects[2]), nodes, axes, bs)
    ELSE PushNode(Child_Hittable(objects[2]), Child_Hittable(objects[1]), nodes, axes, bs)

\* The arm `_ =>` of new_helper once both halves are built.
new_helper_children(l, r, bs) ==
    IF r.status # "ok" THEN r
    ELSE PushNode(Child_Index(l.idx), Child_Index(r.idx), r.nodes, r.axes, bs)

\* BvhNode::new_helper. `axes` are the values rng.gen_range(0..=2) returns, in
\* the order the invocations draw them.
RECURSIVE BvhNode_new_helper(_, _, _, _)

\* The arm `_ =>` once the left half is built: the right half.
new_helper_right(right_objects, l, bs) ==
    IF l.status # "ok" THEN l
    ELSE new_helper_children(l, BvhNode_new_helper(right_objects, l.axes, l.nodes, bs), bs)

\* The mutant leaves the object at `mid` out of the right half.
new_helper_split_skipping(sorted, mid, axes, nodes, bs) ==
    new_helper_right(SubSeq(sorted, mid + 2, Len(sorted)),
                     BvhNode_new_helper(SubSeq(sorted, 1, mid), axes, nodes, bs), bs)

\* The arm `_ =>` after the sort: `objects.split_at_mut(mid)` and the left half.
new_helper_split(sorted, mid, axes, nodes, bs) ==
    new_helper_right(SubSeq(sorted, mid + 1, Len(sorted)),
                     BvhNode_new_helper(SubSeq(sorted, 1, mid), axes, nodes, bs), bs)

BvhNode_new_helper(objects, axes, nodes, bs) ==
    IF Len(objects) = 0 THEN Overflowed
    ELSE IF Len(objects) = 1
    THEN PushNode(Child_Hittable(objects[1]), Child_Hittable(objects[1]), nodes,
                  Tail(axes), bs)
    ELSE IF Len(objects) = 2
    THEN new_helper_two(objects, box_compare(objects[1], objects[2], Head(axes), bs),
                        Tail(axes), nodes, bs)
    ELSE IF Unbounded(objects, bs) THEN Panicked
    ELSE new_helper_split(sort_by(objects, Len(objects), Head(axes), bs),
                          Len(objects) \div 2, Tail(axes), nodes, bs)

\* The number of invocations of new_helper for n objects, each drawing an axis.
RECURSIVE HelperCalls(_)
HelperCalls(n) ==
    IF n <= 2 THEN 1
    ELSE 1 + HelperCalls(n \div 2) + HelperCalls(n - n \div 2)

\* BvhNode::new
BvhNode_new(list, axes, bs) == BvhNode_new_helper(list, axes, <<>>, bs)

\* `Bvh { id, root_index, nodes }`, built being what BvhNode::new handed back.
Bvh_of(id, built) == [id |-> id, root_index |-> built.idx, nodes |-> built.nodes]

\* Bvh::new, for a list it does not panic on.
Bvh_new(id, list, axes, bs) == Bvh_of(id, BvhNode_new(list, axes, bs))

\* Bvh::go_up_level
RECURSIVE go_up_level(_, _, _)
go_up_level(nodes, start_node, level) ==
    IF level = 0 THEN start_node
    ELSE IF IsSome(nodes[start_node + 1].parent)
         THEN go_up_level(nodes, nodes[start_node + 1].parent.val, level - 1)
         ELSE start_node

\* `self.go_up_level(node_idx, go_up_level)` on a Bvh. The mutant goes one
\* level further.
Bvh_go_up_level_further(nodes, cur_node_idx, level) ==
    go_up_level(nodes, cur_node_idx, level + 1)

Bvh_go_up_level(nodes, cur_node_idx, level) ==
    go_up_level(nodes, cur_node_idx, level)

(***************************************************************************)
(* hrpp.rs: the fingerprint of a ray. The components of the rays are       *)
(* integers; to_bits is the IEEE-754 single precision pattern of an        *)
(* integer, kept as the sign bit and the 31 bits below it. A u64 is kept   *)
(* as its four 16-bit limbs, the least significant first.                  *)
(***************************************************************************)
RECURSIVE Pow2(_)
Pow2(n) == IF n = 0 THEN 1 ELSE 2 * Pow2(n - 1)

\* floor(log2(m)) for m >= 1
RECURSIVE Log2(_)
Log2(m) == IF m < 2 THEN 0 ELSE 1 + Log2(m \div 2)

Abs(v) == IF v < 0 THEN -v ELSE v

\* f32::to_bits: [sign |-> bit 31, low |-> bits 30..0]
to_bits(val) ==
    IF val = 0 THEN [sign |-> 0, low |-> 0]
    ELSE LET m == Abs(val)
             e == Log2(m)
         IN  [sign |-> IF val < 0 THEN 1 ELSE 0,
              low |-> (127 + e) * Pow2(23) + (m - Pow2(e)) * Pow2(23 - e)]

\* a >> n, a << n
Shr(a, n) == a \div Pow2(n)
Shl(a, n) == a * Pow2(n)

\* a & b, a | b and a ^ b
RECURSIVE BitAnd(_, _)
BitAnd(a, b) ==
    IF a = 0 \/ b = 0 THEN 0
    ELSE 2 * BitAnd(a \div 2, b \div 2) + (IF a % 2 = 1 /\ b % 2 = 1 THEN 1 ELSE 0)

RECURSIVE BitOr(_, _)
BitOr(a, b) ==
    IF a = 0 THEN b
    ELSE IF b = 0 THEN a
    ELSE 2 * BitOr(a \div 2, b \div 2) + (IF a % 2 = 1 \/ b % 2 = 1 THEN 1 ELSE 0)

RECURSIVE BitXor(_, _)
BitXor(a, b) ==
    IF a = 0 THEN b
    ELSE IF b = 0 THEN a
    ELSE 2 * BitXor(a \div 2, b \div 2) + (IF a % 2 # b % 2 THEN 1 ELSE 0)

\* BitPrecision::Six
exponent_bits_to_shift == 25
mantissa_bits_to_shift == 17
bits_to_mask == 63

\* map_float_to_hash from `let sign_bit` on. `(bits >> 25) as u16 & 0x3f` and
\* `(bits >> 17) as u16 & 0x3f` drop bit 31, so they are taken from the low bits:
\* `(sign_bit << 15) | (exponent_bits << 7) | mantissa_bits`.
hash_of_bits(bits) ==
    BitOr(BitOr(Shl(bits.sign, 15),
                Shl(BitAnd(Shr(bits.low, exponent_bits_to_shift), bits_to_mask), 7)),
          BitAnd(Shr(bits.low, mantissa_bits_to_shift), bits_to_mask))

\* map_float_to_hash(val, &BitPrecision::Six)
map_float_to_hash(val) == hash_of_bits(to_bits(val))

\* The mutant pairs every origin component with the direction component of
\* the same axis.
hash_same_axis(ray) ==
    << BitXor(map_float_to_hash(ray.origin[1]), map_float_to_hash(ray.direction[1])),
       BitXor(map_float_to_hash(ray.origin[2]), map_float_to_hash(ray.direction[2])),
       BitXor(map_float_to_hash(ray.origin[3]), map_float_to_hash(ray.direction[3])),
       0 >>

\* hash(ray): (hash_0 << 0) | (hash_1 << 16) | (hash_2 << 32), where
\* hash_0 = hash_origin_x ^ hash_direction_z, hash_1 = hash_origin_y ^
\* hash_direction_y and hash_2 = hash_origin_z ^ hash_direction_x.
hash(ray) ==
    << BitXor(map_float_to_hash(ray.origin[1]), map_float_to_hash(ray.direction[3])),
       BitXor(map_float_to_hash(ray.origin[2]), map_float_to_hash(ray.direction[2])),
       BitXor(map_float_to_hash(ray.origin[3]), map_float_to_hash(ray.direction[1])),
       0 >>

(***************************************************************************)
(* hrpp.rs: Predictor                                                      *)
(***************************************************************************)
\* Predictor::new
Predictor_new(id) ==
    [id |-> id, prediction_table |-> <<>>,
     true_positive_predictions |-> 0, false_positive_predictions |-> 0,
     no_predictions |-> 0]

\* AHashMap::get and AHashMap::insert, which replaces the value of a key it holds.
AHashMap_get(map, key) == IF key \in DOMAIN map THEN Some(map[key]) ELSE None
AHashMap_insert(map, key, value) ==
    [k \in DOMAIN map \cup {key} |-> IF k = key THEN value ELSE map[k]]

\* Predictor::get_prediction
Predictor_get_prediction(self, ray) == AHashMap_get(self.prediction_table, hash(ray))

\* The predicted node indices of a prediction: the table holds one index per
\* fingerprint.
Predictions_of(prediction) ==
    IF IsSome(prediction) THEN Some(<<prediction.val>>) ELSE None

\* `predictor.get_predictions(ray).cloned()`, which Bvh::hit iterates over: the
\* predicted node indices for the ray's fingerprint.
Predictor_get_predictions(self, ray) ==
    Predictions_of(Predictor_get_prediction(self, ray))

\* Predictor::insert
Predictor_insert(self, ray, prediction) ==
    [self EXCEPT !.prediction_table = AHashMap_insert(@, hash(ray), prediction)]

(***************************************************************************)
(* The values of the variables a specification does not use.               *)
(***************************************************************************)
PipelineIdle ==
    /\ threads = 0 /\ main_pc = "idle" /\ tiles_queue = <<>> /\ senders = 0
    /\ channel = <<>> /\ colors = <<>> /\ workers = <<>> /\ ppm = <<>>
    /\ popped = <<>> /\ rendered = <<>> /\ sent = <<>> /\ received = <<>>
    /\ writes = <<>>
ShadeIdle ==
    [pc |-> "idle", depth |-> 0, waiting |-> <<>>, value |-> <<0, 0, 0>>,
     queries |-> 0, last |-> None]
CallIdle == fn = "none" /\ args = <<>> /\ ret = None /\ shade = ShadeIdle
TileIdle ==
    /\ image_width = 0 /\ image_height = 0 /\ tile_width = 1 /\ tile_height = 1
    /\ tiles = <<>> /\ tile_pc = "idle"
    /\ PipelineIdle /\ CallIdle
SceneIdle == lists = <<>> /\ bvhs = <<>>
QueryIdle ==
    /\ q_ray = Ray_new(<<0, 0, 0>>, <<1, 1, 1>>) /\ q_t_min = 0 /\ q_t_max = 0
    /\ bvh_hit = None /\ list_hit = None /\ bvh_pc = "idle"
RenderIdle ==
    /\ world = <<>> /\ predictors = None /\ mutex = <<>>
    /\ stack = [t \in Workers |-> <<>>] /\ calls = 0
    /\ hit_calls = <<>> /\ found = {}

(***************************************************************************)
(* The scenes: cubes with even coordinates, rays whose direction           *)
(* components are 1, -1 or 0 (so that every intersection has an integer    *)
(* parameter), and the intervals the rays are cast with. A ray with a 0    *)
(* direction component has an odd origin coordinate on that axis: it is    *)
(* parallel to the faces of that axis and lies in none of them.            *)
(***************************************************************************)
CubeX == Cube_new(<<6, 2, 2>>, <<8, 4, 4>>, "X")
CubeY == Cube_new(<<10, 2, 2>>, <<12, 4, 4>>, "Y")
CubeZ == Cube_new(<<12, 6, 6>>, <<16, 8, 8>>, "Z")
CubeW == Cube_new(<<2, 2, 2>>, <<4, 4, 4>>, "W")
Cubes == { CubeX, CubeY, CubeZ, CubeW }

\* RayA and RayB have the same fingerprint: hash keeps of 4 and of 8 the same bits.
RayA == Ray_new(<<4, 0, 0>>, <<1, 1, 1>>)
RayB == Ray_new(<<8, 0, 0>>, <<1, 1, 1>>)
RayC == Ray_new(<<0, 0, 0>>, <<1, 1, 1>>)
Rays ==
    { RayA, RayB, RayC,
      Ray_new(<<18, 10, 10>>, <<-1, -1, -1>>),
      Ray_new(<<8, 0, 0>>, <<-1, 1, 1>>),
      Ray_new(<<0, 8, 0>>, <<1, -1, 1>>),
      Ray_new(<<0, 3, 3>>, <<1, 0, 0>>),
      Ray_new(<<13, 7, 9>>, <<0, 0, -1>>) }

Intervals == { <<0, Infinity>>, <<3, Infinity>>, <<1, 7>> }

\* The lists of 1..n cubes
CubeLists(n) == UNION { [1..k -> Cubes] : k \in 1..n }

\* The values rng.gen_range(0..=2) can return while a list of n objects is built
AxisChoices(n) == [1..HelperCalls(n) -> 0..2]

(***************************************************************************)
(* One Bvh without a predictor against the list it was built from.         *)
(***************************************************************************)
BvhInit ==
    /\ lists \in { <<l>> : l \in CubeLists(MaxObjects) }
    /\ bvhs = <<>>
    /\ QueryIdle
    /\ TileIdle
    /\ RenderIdle

\* `Bvh::new(list, time_0, time_1)`
BvhBuild ==
    /\ bvh_pc = "idle" /\ bvhs = <<>>
    /\ \E axes \in AxisChoices(Len(lists[1])) :
          bvhs' = <<Bvh_new(1, lists[1], axes, <<>>)>>
    /\ bvh_pc' = "built"
    /\ UNCHANGED <<lists, q_ray, q_t_min, q_t_max, bvh_hit, list_hit, tile_vars, render_vars>>

\* `bvh.hit(ray, t_min, t_max, &Arc::new(None))` and
\* `list.hit(ray, t_min, t_max, &Arc::new(None))`
BvhQuery ==
    /\ bvh_pc = "built"
    /\ \E r \in Rays, iv \in Intervals :
          /\ q_ray' = r /\ q_t_min' = iv[1] /\ q_t_max' = iv[2]
          /\ bvh_hit' = Bvh_hit_plain(bvhs, 1, r, iv[1], iv[2], <<>>)
          /\ list_hit' = HittableList_hit(lists[1], r, iv[1], iv[2], bvhs)
    /\ bvh_pc' = "hit"
    /\ UNCHANGED <<scene_vars, tile_vars, render_vars>>

BvhNext == BvhBuild \/ BvhQuery

SpecBvh == BvhInit /\ [][BvhNext]_vars

\* No ray of Rays meets a cube of Cubes beyond this parameter.
FarthestCrossing == 20

\* The parameters in [t_min, t_max] at which the ray meets the surface of a cube
CubeCrossings(cube, r, lo, hi) ==
    { t \in lo..(IF hi = Infinity THEN FarthestCrossing ELSE hi) :
        IsSome(Cube_hit(cube, r, t, t)) }

\* C1: Bvh::hit without a predictor returns a hit iff HittableList::hit over the
\* original list does, and then both report the same t, the least parameter in
\* [t_min, t_max] at which the ray meets an object of the list.
C1_BvhEqualsLinearScan ==
    bvh_pc = "hit" =>
        LET crossings == UNION { CubeCrossings(lists[1][i], q_ray, q_t_min, q_t_max) :
                                    i \in 1..Len(lists[1]) }
        IN  /\ IsSome(bvh_hit) <=> IsSome(list_hit)
            /\ IsSome(bvh_hit) <=> crossings # {}
            /\ IsSome(bvh_hit) =>
                  /\ bvh_hit.val.t = list_hit.val.t
                  /\ bvh_hit.val.t \in crossings
                  /\ \A t \in crossings : bvh_hit.val.t <= t

\* A tree of three nodes, and a ray that meets two of its objects at different
\* parameters: the nearer one is in the right subtree of the root.
C1_Witness ==
    /\ bvh_pc = "hit" /\ IsSome(bvh_hit)
    /\ Len(bvhs[1].nodes) = 3
    /\ \E i, j \in 1..Len(lists[1]) :
          /\ IsSome(Cube_hit(lists[1][i], q_ray, q_t_min, q_t_max))
          /\ IsSome(Cube_hit(lists[1][j], q_ray, q_t_min, q_t_max))
          /\ Cube_hit(lists[1][i], q_ray, q_t_min, q_t_max).val.t
                 < Cube_hit(lists[1][j], q_ray, q_t_min, q_t_max).val.t
    /\ LET root == bvhs[1].nodes[bvhs[1].root_index + 1]
           right == BvhNode_hit(bvhs[1].nodes, root.right.i, q_ray, q_t_min, q_t_max, <<>>)
       IN  IsSome(right.hit) /\ right.hit.val.rec.t = bvh_hit.val.t

(***************************************************************************)
(* Claims about HittableList::hit                                          *)
(***************************************************************************)
\* What the i-th object of the list reports for the ray and the whole interval
ObjectHit(i) == Hittable_hit(lists[1][i], q_ray, q_t_min, q_t_max, bvhs)

\* The list in the order p
Reordered(p) == [i \in 1..Len(lists[1]) |-> lists[1][p[i]]]

\* C19: HittableList::hit(ray, t_min, t_max) returns a hit iff at least one
\* object of the list reports a hit with t in [t_min, t_max], and the returned
\* record has the minimum t among all such hits, for every insertion order of
\* the objects.
C19_ListHitIsNearest ==
    bvh_pc = "hit" =>
       /\ IsSome(list_hit) <=> \E i \in 1..Len(lists[1]) : IsSome(ObjectHit(i))
       /\ IsSome(list_hit) =>
             /\ q_t_min <= list_hit.val.t /\ list_hit.val.t <= q_t_max
             /\ \E i \in 1..Len(lists[1]) : ObjectHit(i) = list_hit
             /\ \A i \in 1..Len(lists[1]) :
                   IsSome(ObjectHit(i)) => list_hit.val.t <= ObjectHit(i).val.t
       /\ \A p \in Permutations(1..Len(lists[1])) :
             LET other == HittableList_hit(Reordered(p), q_ray, q_t_min, q_t_max, bvhs)
             IN  /\ IsSome(other) <=> IsSome(list_hit)
                 /\ IsSome(other) => other.val.t = list_hit.val.t

\* C19's case: three objects that all report a hit, the nearest of them in the
\* middle of the list.
C19_Witness ==
    /\ bvh_pc = "hit" /\ IsSome(list_hit)
    /\ Len(lists[1]) = 3
    /\ \A i \in 1..3 : IsSome(ObjectHit(i))
    /\ ObjectHit(2).val.t < ObjectHit(1).val.t
    /\ ObjectHit(2).val.t < ObjectHit(3).val.t

(***************************************************************************)
(* Bvh::new over every list of cubes and of hittables without a bounding   *)
(* box (an empty HittableList is one: hittable.rs:136-138), with every     *)
(* sequence of random axes.                                                *)
(***************************************************************************)
\* `HittableList::new()` as a hittable: its bounding_box is None
EmptyHittableList == [kind |-> "Unbounded", material |-> "none"]

\* The lists of 1..n hittables, bounded or not
HittableLists(n) == UNION { [1..k -> Cubes \cup {EmptyHittableList}] : k \in 1..n }

BuildInit ==
    /\ lists \in { <<l>> : l \in HittableLists(MaxObjects) \cup {<<>>} }
    /\ bvhs = <<>>
    /\ QueryIdle
    /\ TileIdle
    /\ RenderIdle

\* The end of Bvh::new: `Bvh { id, root_index, nodes }`, unless BvhNode::new
\* has panicked or its recursion has used up the stack.
BuildDone(built) ==
    IF built.status = "ok"
    THEN bvhs' = <<Bvh_of(1, built)>> /\ bvh_pc' = "built"
    ELSE IF built.status = "panic"
    THEN bvhs' = <<>> /\ bvh_pc' = "panicked"
    ELSE bvhs' = <<>> /\ bvh_pc' = "overflowed"

\* `Bvh::new(list, time_0, time_1)`
Build ==
    /\ bvh_pc = "idle" /\ bvhs = <<>>
    /\ \E axes \in AxisChoices(Len(lists[1])) :
          BuildDone(BvhNode_new(lists[1], axes, <<>>))
    /\ UNCHANGED <<lists, q_ray, q_t_min, q_t_max, bvh_hit, list_hit, tile_vars, render_vars>>

BuildNext == Build

SpecBuild == BuildInit /\ [][BuildNext]_vars

(***************************************************************************)
(* Claims about the construction                                           *)
(***************************************************************************)
\* Box `outer` contains box `inner`: component-wise min <= and max >=
Contains(outer, inner) ==
    \A i \in 1..DIMENSIONS :
       outer.min[i] <= inner.min[i] /\ outer.max[i] >= inner.max[i]

\* C15: in every BVH built by Bvh::new, the bounding box of every node
\* contains the bounding boxes of both of its children, whether a child is an
\* interior node or a leaf hittable.
C15_NodeBoxContainsChildren ==
    bvh_pc = "built" =>
       \A k \in 1..Len(bvhs[1].nodes) :
          LET node == bvhs[1].nodes[k]
          IN  /\ IsSome(ChildBox(node.left, bvhs[1].nodes, bvhs))
              /\ IsSome(ChildBox(node.right, bvhs[1].nodes, bvhs))
              /\ Contains(node.bounding_box, ChildBox(node.left, bvhs[1].nodes, bvhs).val)
              /\ Contains(node.bounding_box, ChildBox(node.right, bvhs[1].nodes, bvhs).val)

\* C15's case: a tree whose root has two interior nodes as children, one of
\* them with a box smaller than the root's, and a node with two different
\* leaf hittables.
C15_Witness ==
    /\ bvh_pc = "built"
    /\ LET root == bvhs[1].nodes[bvhs[1].root_index + 1]
       IN  /\ root.left.tag = "Index" /\ root.right.tag = "Index"
           /\ bvhs[1].nodes[root.left.i + 1].bounding_box # root.bounding_box
    /\ \E k \in 1..Len(bvhs[1].nodes) :
          /\ bvhs[1].nodes[k].left.tag = "Hittable"
          /\ bvhs[1].nodes[k].left # bvhs[1].nodes[k].right

\* The hittables in the leaves of a Bvh
Leaves(bvh) ==
    { bvh.nodes[k].left.hittable :
         k \in { n \in 1..Len(bvh.nodes) : bvh.nodes[n].left.tag = "Hittable" } }
    \cup
    { bvh.nodes[k].right.hittable :
         k \in { n \in 1..Len(bvh.nodes) : bvh.nodes[n].right.tag = "Hittable" } }

\* C16: for every input list of n >= 1 bounded hittables and every sequence of
\* random axis choices, Bvh::new returns a BVH in which every hittable of the
\* list is a leaf child of at least one node, and no hittable outside the list
\* is in any leaf.
C16_LeavesAreTheInputList ==
    (bvh_pc # "idle" /\ Len(lists[1]) >= 1 /\ ~Unbounded(lists[1], <<>>)) =>
       /\ bvh_pc = "built"
       /\ Leaves(bvhs[1]) = { lists[1][i] : i \in 1..Len(lists[1]) }

\* C16's case: three different cubes, built into a tree of three nodes.
C16_Witness ==
    /\ bvh_pc = "built"
    /\ Cardinality({ lists[1][i] : i \in 1..Len(lists[1]) }) = 3
    /\ Len(bvhs[1].nodes) = 3

\* C17: if any hittable of the input list returns no bounding box, Bvh::new
\* panics, for every list size n >= 1 and every random axis choice, and never
\* returns a BVH.
C17_UnboundedPanics ==
    (bvh_pc # "idle" /\ Unbounded(lists[1], <<>>)) =>
       bvh_pc = "panicked" /\ bvhs = <<>>

\* C17's case: Bvh::new has panicked on a list of the greatest length of
\* which only the last hittable has no bounding box.
C17_Witness ==
    /\ bvh_pc = "panicked"
    /\ Len(lists[1]) = MaxObjects
    /\ lists[1][Len(lists[1])] = EmptyHittableList
    /\ \A i \in 1..(Len(lists[1]) - 1) : lists[1][i] \in Cubes

\* The nodes that have node i as an interior child
ParentsOf(nodes, i) ==
    { k \in 0..(Len(nodes) - 1) :
         \/ nodes[k + 1].left = Child_Index(i)
         \/ nodes[k + 1].right = Child_Index(i) }

\* C26: in every BVH built by Bvh::new from n >= 1 objects the node array is a
\* well-formed tree: root_index is the index of the last node pushed and the
\* only node without parent; every interior child i of a node k has i < k and
\* parent Some(k); every other node than the root is the interior child of
\* exactly one node, once; and every node's idx is its position in the array.
C26_NodesAreATree ==
    bvh_pc = "built" =>
       LET nodes == bvhs[1].nodes
           last == Len(nodes) - 1
       IN  /\ bvhs[1].root_index = last
           /\ \A k \in 0..last :
                 /\ nodes[k + 1].idx = k
                 /\ ~IsSome(nodes[k + 1].parent) <=> k = last
                 /\ \A i \in 0..last :
                       i \in ParentsOf(nodes, k) =>
                          k < i /\ nodes[k + 1].parent = Some(i)
                 /\ k # last =>
                       /\ Cardinality(ParentsOf(nodes, k)) = 1
                       /\ \A i \in ParentsOf(nodes, k) :
                             nodes[i + 1].left # nodes[i + 1].right
\* C26's case: a root over two interior children.
C26_Witness ==
    /\ bvh_pc = "built" /\ Len(bvhs[1].nodes) = 3
    /\ ParentsOf(bvhs[1].nodes, 0) = {2} /\ ParentsOf(bvhs[1].nodes, 1) = {2}
    /\ bvhs[1].nodes[1].parent = Some(2)

\* C27: for every list given to Bvh::new, of every size n >= 0, every
\* invocation of new_helper receives a non-empty slice, and a smaller one than
\* its caller's, so that the recursion ends and the construction terminates
\* (with a Bvh, or with the panic of a missing bounding box).
C27_ConstructionTerminates ==
    bvh_pc # "idle" =>
       /\ Len(lists[1]) >= 1
       /\ bvh_pc \in {"built", "panicked"}

(***************************************************************************)
(* renderer.rs: Tile                                                       *)
(***************************************************************************)
\* Tile::new
Tile_new(width, height, x_coord_start, y_coord_start) ==
    [width |-> width, height |-> height,
     x_coord_start |-> x_coord_start, y_coord_start |-> y_coord_start]

\* `for tile_x in 0..num_horizontal_tiles { tiles.push(Tile::new(w, h, tile_x * tile_width, y)) }`
RECURSIVE PushRowTiles(_, _, _, _, _, _, _)
PushRowTiles(acc, tile_x, num_horizontal_tiles, w, h, tw, y) ==
    IF tile_x >= num_horizontal_tiles THEN acc
    ELSE PushRowTiles(Append(acc, Tile_new(w, h, tile_x * tw, y)),
                      tile_x + 1, num_horizontal_tiles, w, h, tw, y)

\* The body of the loop `for tile_y in 0..num_vertical_tiles`: the full tiles of
\* the band, then the band's rightmost tile if necessary.
\* The mutant forgets the rightmost tile of each full band.
RowBandNoRemainder(acc, tile_y, nx, rx, tw, th) ==
    PushRowTiles(acc, 0, nx, tw, th, tw, tile_y * th)

RowBand(acc, tile_y, nx, rx, tw, th) ==
    LET full == PushRowTiles(acc, 0, nx, tw, th, tw, tile_y * th)
    IN  IF rx > 0
        THEN Append(full, Tile_new(rx, th, nx * tw, tile_y * th))
        ELSE full

RECURSIVE RowBands(_, _, _, _, _, _, _)
RowBands(acc, tile_y, ny, nx, rx, tw, th) ==
    IF tile_y >= ny THEN acc
    ELSE RowBands(RowBand(acc, tile_y, nx, rx, tw, th), tile_y + 1, ny, nx, rx, tw, th)

\* "Add the bottom row if necessary".
\* The mutant places the bottom band where a full band would start.
BottomRowMisplaced(acc, nx, ny, ry, tw, th) ==
    IF ry > 0 THEN PushRowTiles(acc, 0, nx, tw, ry, tw, (ny - 1) * th) ELSE acc

BottomRow(acc, nx, ny, ry, tw, th) ==
    IF ry > 0 THEN PushRowTiles(acc, 0, nx, tw, ry, tw, ny * th) ELSE acc

\* "Add the bottom-most, right-most Tile if necessary"
CornerTile(acc, nx, ny, rx, ry, tw, th) ==
    IF rx > 0 /\ ry > 0
    THEN Append(acc, Tile_new(rx, ry, nx * tw, ny * th))
    ELSE acc

\* Tile::tile
Tile_tile(W, H, tw, th) ==
    LET num_horizontal_tiles == W \div tw
        remainder_horizontal_pixels == W % tw
        num_vertical_tiles == H \div th
        remainder_vertical_pixels == H % th
        bands == RowBands(<<>>, 0, num_vertical_tiles, num_horizontal_tiles,
                          remainder_horizontal_pixels, tw, th)
        bottom == BottomRow(bands, num_horizontal_tiles, num_vertical_tiles,
                            remainder_vertical_pixels, tw, th)
    IN  CornerTile(bottom, num_horizontal_tiles, num_vertical_tiles,
                   remainder_horizontal_pixels, remainder_vertical_pixels, tw, th)

\* The mutant forgets the tile's offset in the image.
get_tile_local_pixel_coordinates(tile, x, y) == [x |-> x, y |-> y]

\* Tile::get_full_image_pixel_coordinates, for x < width and y < height
get_full_image_pixel_coordinates(tile, x, y) ==
    [x |-> tile.x_coord_start + x, y |-> tile.y_coord_start + y]

(***************************************************************************)
(* The tiling specification: Renderer::render's first statement, for every *)
(* image size and tile size within the bounds.                             *)
(***************************************************************************)
TileInit ==
    /\ image_width \in 0..MaxImage
    /\ image_height \in 0..MaxImage
    /\ tile_width \in 1..MaxTile
    /\ tile_height \in 1..MaxTile
    /\ tiles = <<>>
    /\ tile_pc = "start"
    /\ PipelineIdle /\ CallIdle
    /\ SceneIdle /\ QueryIdle /\ RenderIdle

\* `let tiles = Tile::tile(self.image_width, self.image_height, tile_width, tile_height);`
RenderTile ==
    /\ tile_pc = "start"
    /\ tiles' = Tile_tile(image_width, image_height, tile_width, tile_height)
    /\ tile_pc' = "tiled"
    /\ UNCHANGED <<image_width, image_height, tile_width, tile_height, pipeline_vars,
                   call_vars>>
    /\ UNCHANGED <<scene_vars, query_vars, render_vars>>

TileNext == RenderTile

SpecTile == TileInit /\ [][TileNext]_vars

(***************************************************************************)
(* Claims about Tile::tile                                                 *)
(***************************************************************************)
RECURSIVE SumAreas(_, _)
SumAreas(ts, i) ==
    IF i > Len(ts) THEN 0 ELSE ts[i].width * ts[i].height + SumAreas(ts, i + 1)

TileContains(t, x, y) ==
    /\ t.x_coord_start <= x /\ x < t.x_coord_start + t.width
    /\ t.y_coord_start <= y /\ y < t.y_coord_start + t.height

TilesDisjoint(a, b) ==
    \/ a.x_coord_start + a.width <= b.x_coord_start
    \/ b.x_coord_start + b.width <= a.x_coord_start
    \/ a.y_coord_start + a.height <= b.y_coord_start
    \/ b.y_coord_start + b.height <= a.y_coord_start

\* C9: the tiles returned by Tile::tile(W, H, tw, th) are pairwise
\* non-overlapping, each has positive width and height and lies inside the
\* image, every pixel of the image lies in exactly one tile, and the tile areas
\* sum to W * H.
C9_TilePartition ==
    tile_pc = "tiled" =>
        /\ \A i \in 1..Len(tiles) :
              /\ tiles[i].width > 0 /\ tiles[i].height > 0
              /\ tiles[i].x_coord_start >= 0 /\ tiles[i].y_coord_start >= 0
              /\ tiles[i].x_coord_start + tiles[i].width <= image_width
              /\ tiles[i].y_coord_start + tiles[i].height <= image_height
        /\ \A i, j \in 1..Len(tiles) : i # j => TilesDisjoint(tiles[i], tiles[j])
        /\ \A x \in 0..(image_width - 1), y \in 0..(image_height - 1) :
              Cardinality({i \in 1..Len(tiles) : TileContains(tiles[i], x, y)}) = 1
        /\ SumAreas(tiles, 1) = image_width * image_height

\* A tiling with both remainders: full tiles, a right column, a bottom row and
\* the corner tile.
C9_Witness ==
    /\ tile_pc = "tiled"
    /\ image_width % tile_width # 0 /\ image_height % tile_height # 0
    /\ image_width > tile_width /\ image_height > tile_height
    /\ Len(tiles) >= 4

CeilDiv(a, b) == (a + b - 1) \div b

RowMajorLess(a, b) ==
    \/ a.y_coord_start < b.y_coord_start
    \/ a.y_coord_start = b.y_coord_start /\ a.x_coord_start < b.x_coord_start

\* C10: Tile::tile returns ceil(W/tw) * ceil(H/th) tiles, strictly increasing
\* by (y_coord_start, x_coord_start); the tile in column i of band j starts at
\* (i*tw, j*th), is tw wide except in the remainder column (W % tw) and th high
\* except in the remainder band (H % th); the corner tile (W%tw, H%th) exists
\* iff both remainders are non-zero.
C10_TileLayout ==
    tile_pc = "tiled" =>
        LET cols == CeilDiv(image_width, tile_width)
            rows == CeilDiv(image_height, tile_height)
            nx == image_width \div tile_width
            ny == image_height \div tile_height
            rx == image_width % tile_width
            ry == image_height % tile_height
        IN  /\ Len(tiles) = cols * rows
            /\ \A k \in 1..(Len(tiles) - 1) : RowMajorLess(tiles[k], tiles[k + 1])
            /\ \A j \in 0..(rows - 1), i \in 0..(cols - 1) :
                  tiles[j * cols + i + 1] =
                      Tile_new(IF i < nx THEN tile_width ELSE rx,
                               IF j < ny THEN tile_height ELSE ry,
                               i * tile_width, j * tile_height)
            /\ (\E k \in 1..Len(tiles) :
                    tiles[k] = Tile_new(rx, ry, nx * tile_width, ny * tile_height))
               <=> (rx # 0 /\ ry # 0)

\* An imperfect tiling like the one of tests::tile_imperfect_tiling: at least
\* two full bands of at least two full tiles, and both remainders.
C10_Witness ==
    /\ tile_pc = "tiled"
    /\ image_width \div tile_width >= 2 /\ image_height \div tile_height >= 2
    /\ image_width % tile_width # 0 /\ image_height % tile_height # 0
    /\ tiles[Len(tiles)].width = image_width % tile_width
    /\ tiles[Len(tiles)].height = image_height % tile_height

(***************************************************************************)
(* renderer.rs: ImageColors, TileRenderMessage and the colour of a pixel.  *)
(* A colour is an Srgb triple. What Renderer::get_color computes for a     *)
(* pixel depends on the scene and on the random samples; the model fixes   *)
(* one colour per pixel of the full image, different for every pixel and   *)
(* different from black.                                                   *)
(***************************************************************************)
\* `Srgb::new(0.0, 0.0, 0.0)`
Black == <<0, 0, 0>>

\* PixelCoordinates::new
PixelCoordinates_new(x, y) == [x |-> x, y |-> y]

\* Renderer::get_color
Renderer_get_color(pixel_coords) == <<pixel_coords.x + 1, pixel_coords.y + 1, 1>>

\* ImageColors::new
ImageColors_new(width, height) ==
    [colors |-> [i \in 1..(width * height) |-> Black], image_width |-> width]

\* ImageColors::get_idx
ImageColors_get_idx(ic, x, y) == y * ic.image_width + x

\* ImageColors::set_color, for an index inside the Vec
ImageColors_set_color(ic, coords, color) ==
    [ic EXCEPT !.colors[ImageColors_get_idx(ic, coords.x, coords.y) + 1] = color]

\* ImageColors::get_color, for an index inside the Vec
ImageColors_get_color(ic, x, y) == ic.colors[ImageColors_get_idx(ic, x, y) + 1]

\* TileRenderMessage::new
TileRenderMessage_new(tile, tile_colors) == [tile |-> tile, colors |-> tile_colors]

\* render_tile's loops `for y in 0..tile.height { for x in 0..tile.width { .. } }`,
\* from the k-th pixel on (y = k / width, x = k % width)
RECURSIVE RenderTilePixels(_, _, _)
RenderTilePixels(tile, tile_colors, k) ==
    IF k >= tile.width * tile.height THEN tile_colors
    ELSE RenderTilePixels(
             tile,
             ImageColors_set_color(
                 tile_colors,
                 PixelCoordinates_new(k % tile.width, k \div tile.width),
                 Renderer_get_color(
                     get_full_image_pixel_coordinates(tile, k % tile.width,
                                                      k \div tile.width))),
             k + 1)

\* The body of the merge loop: `colors.set_color(&full_image_pixel_coords, *color)`
\* (acc.writes counts the writes of each element of the framebuffer)
MergePixel(acc, full_image_pixel_coords, color) ==
    [colors |-> ImageColors_set_color(acc.colors, full_image_pixel_coords, color),
     writes |-> [acc.writes EXCEPT ![ImageColors_get_idx(acc.colors,
                                                         full_image_pixel_coords.x,
                                                         full_image_pixel_coords.y) + 1] = @ + 1]]

\* render's loops `for x in 0..tile.width { for y in 0..tile.height { .. } }`,
\* from the k-th pixel on (x = k / height, y = k % height)
RECURSIVE MergeTile(_, _, _)
MergeTile(acc, message, k) ==
    IF k >= message.tile.width * message.tile.height THEN acc
    ELSE MergeTile(
             MergePixel(acc,
                        get_full_image_pixel_coordinates(
                            message.tile, k \div message.tile.height,
                            k % message.tile.height),
                        ImageColors_get_color(message.colors,
                                              k \div message.tile.height,
                                              k % message.tile.height)),
             message, k + 1)

\* Renderer::write_ppm: the pixels in the order they are written,
\* `for y in (0..self.image_height).rev() { for x in 0..self.image_width { .. } }`
write_ppm(ic, width, height) ==
    [i \in 1..(width * height) |->
        ImageColors_get_color(ic, (i - 1) % width, height - 1 - ((i - 1) \div width))]

\* The index in `tiles` of a tile (the tiles of one tiling are all different)
TileIndex(tile) == CHOOSE i \in 1..Len(tiles) : tiles[i] = tile

(***************************************************************************)
(* Renderer::render: the main thread tiles the image, fills the queue,     *)
(* spawns `threads` workers that each run render_tile, drops its own       *)
(* Sender, merges the messages until the channel is disconnected and then  *)
(* writes the image.                                                       *)
(***************************************************************************)
RenderInit ==
    /\ image_width \in 0..MaxFrameWidth
    /\ image_height \in 0..MaxFrameHeight
    /\ tile_width \in 1..MaxFrameTile
    /\ tile_height \in 1..MaxFrameTile
    /\ tiles = <<>>
    /\ tile_pc = "start"
    /\ threads \in 0..MaxThreads
    /\ main_pc = "idle" /\ tiles_queue = <<>> /\ senders = 0
    /\ channel = <<>> /\ colors = <<>> /\ workers = <<>> /\ ppm = <<>>
    /\ popped = <<>> /\ rendered = <<>> /\ sent = <<>> /\ received = <<>>
    /\ writes = <<>>
    /\ CallIdle
    /\ SceneIdle /\ QueryIdle /\ RenderIdle

\* `ArrayQueue::new(tiles.len())` (which panics when the capacity is zero),
\* `tiles_queue.push(tile)` for every tile, `ImageColors::new(..)` and
\* `let (s, r) = channel::unbounded();`
NewQueue ==
    /\ tile_pc = "tiled" /\ main_pc = "idle"
    /\ IF Len(tiles) = 0
       THEN /\ main_pc' = "panic"
            /\ UNCHANGED <<tiles_queue, colors, senders, popped, rendered, sent, writes>>
       ELSE /\ main_pc' = "spawn"
            /\ tiles_queue' = tiles
            /\ colors' = ImageColors_new(image_width, image_height)
            /\ senders' = 1
            /\ popped' = [i \in 1..Len(tiles) |-> <<>>]
            /\ rendered' = [i \in 1..Len(tiles) |-> 0]
            /\ sent' = [i \in 1..Len(tiles) |-> 0]
            /\ writes' = [i \in 1..(image_width * image_height) |-> 0]
    /\ UNCHANGED <<image_width, image_height, tile_width, tile_height, tiles, tile_pc,
                   call_vars>>
    /\ UNCHANGED <<threads, channel, workers, ppm, received>>
    /\ UNCHANGED <<scene_vars, query_vars, render_vars>>

\* One round of `for _i in 0..threads { let s = s.clone(); .. scope.spawn(..) }`
Spawn ==
    /\ main_pc = "spawn" /\ Len(workers) < threads
    /\ workers' = Append(workers, [pc |-> "pop", tile |-> None, tile_colors |-> None])
    /\ senders' = senders + 1
    /\ UNCHANGED <<image_width, image_height, tile_width, tile_height, tiles, tile_pc,
                   call_vars>>
    /\ UNCHANGED <<threads, main_pc, tiles_queue, channel, colors, ppm>>
    /\ UNCHANGED <<popped, rendered, sent, received, writes>>
    /\ UNCHANGED <<scene_vars, query_vars, render_vars>>

\* `drop(s);` after the last round of the loop
DropSender ==
    /\ main_pc = "spawn" /\ Len(workers) >= threads
    /\ senders' = senders - 1
    /\ main_pc' = "receive"
    /\ UNCHANGED <<image_width, image_height, tile_width, tile_height, tiles, tile_pc,
                   call_vars>>
    /\ UNCHANGED <<threads, tiles_queue, channel, colors, workers, ppm>>
    /\ UNCHANGED <<popped, rendered, sent, received, writes>>
    /\ UNCHANGED <<scene_vars, query_vars, render_vars>>

\* render_tile: `let tile = tiles_queue.pop(); if let Some(tile) = tile { .. }
\* else { return; }`; the return drops the worker's Sender
Pop(w) ==
    /\ w \in DOMAIN workers /\ workers[w].pc = "pop"
    /\ IF tiles_queue # <<>>
       THEN /\ tiles_queue' = Tail(tiles_queue)
            /\ workers' = [workers EXCEPT ![w].pc = "render",
                                          ![w].tile = Some(Head(tiles_queue))]
            /\ popped' = [popped EXCEPT ![TileIndex(Head(tiles_queue))] = Append(@, w)]
            /\ UNCHANGED senders
       ELSE /\ workers' = [workers EXCEPT ![w].pc = "returned"]
            /\ senders' = senders - 1
            /\ UNCHANGED <<tiles_queue, popped>>
    /\ UNCHANGED <<image_width, image_height, tile_width, tile_height, tiles, tile_pc,
                   call_vars>>
    /\ UNCHANGED <<threads, main_pc, channel, colors, ppm>>
    /\ UNCHANGED <<rendered, sent, received, writes>>
    /\ UNCHANGED <<scene_vars, query_vars, render_vars>>

\* render_tile: `let mut tile_colors = ImageColors::new(tile.width, tile.height);`
\* and the loops over the tile's pixels
RenderPixels(w) ==
    /\ w \in DOMAIN workers /\ workers[w].pc = "render"
    /\ workers' = [workers EXCEPT
          ![w].pc = "send",
          ![w].tile_colors =
              Some(RenderTilePixels(workers[w].tile.val,
                                    ImageColors_new(workers[w].tile.val.width,
                                                    workers[w].tile.val.height), 0))]
    /\ rendered' = [rendered EXCEPT ![TileIndex(workers[w].tile.val)] = @ + 1]
    /\ UNCHANGED <<image_width, image_height, tile_width, tile_height, tiles, tile_pc,
                   call_vars>>
    /\ UNCHANGED <<threads, main_pc, tiles_queue, senders, channel, colors, ppm>>
    /\ UNCHANGED <<popped, sent, received, writes>>
    /\ UNCHANGED <<scene_vars, query_vars, render_vars>>

\* render_tile: `sender.send(TileRenderMessage::new(tile, tile_colors)).unwrap();`
\* (the Receiver lives until the receive loop has ended)
Send(w) ==
    /\ w \in DOMAIN workers /\ workers[w].pc = "send"
    /\ channel' = Append(channel, TileRenderMessage_new(workers[w].tile.val,
                                                        workers[w].tile_colors.val))
    /\ sent' = [sent EXCEPT ![TileIndex(workers[w].tile.val)] = @ + 1]
    /\ workers' = [workers EXCEPT ![w] = [pc |-> "pop", tile |-> None, tile_colors |-> None]]
    /\ UNCHANGED <<image_width, image_height, tile_width, tile_height, tiles, tile_pc,
                   call_vars>>
    /\ UNCHANGED <<threads, main_pc, tiles_queue, senders, colors, ppm>>
    /\ UNCHANGED <<popped, rendered, received, writes>>
    /\ UNCHANGED <<scene_vars, query_vars, render_vars>>

\* One round of `for received in r { .. }`: the merge of one tile
Receive ==
    /\ main_pc = "receive" /\ channel # <<>>
    /\ LET merged == MergeTile([colors |-> colors, writes |-> writes], Head(channel), 0)
       IN  colors' = merged.colors /\ writes' = merged.writes
    /\ received' = Append(received, TileIndex(Head(channel).tile))
    /\ channel' = Tail(channel)
    /\ UNCHANGED <<image_width, image_height, tile_width, tile_height, tiles, tile_pc,
                   call_vars>>
    /\ UNCHANGED <<threads, main_pc, tiles_queue, senders, workers, ppm>>
    /\ UNCHANGED <<popped, rendered, sent>>
    /\ UNCHANGED <<scene_vars, query_vars, render_vars>>

\* The end of `for received in r`: the channel is empty and every Sender is
\* dropped; the scope then joins the workers, which have all returned
Disconnected ==
    /\ main_pc = "receive" /\ channel = <<>> /\ senders = 0
    /\ main_pc' = "write"
    /\ UNCHANGED <<image_width, image_height, tile_width, tile_height, tiles, tile_pc,
                   call_vars>>
    /\ UNCHANGED <<threads, tiles_queue, senders, channel, colors, workers, ppm>>
    /\ UNCHANGED <<popped, rendered, sent, received, writes>>
    /\ UNCHANGED <<scene_vars, query_vars, render_vars>>

\* `self.write_ppm(&colors).unwrap();`
WritePpm ==
    /\ main_pc = "write"
    /\ ppm' = write_ppm(colors, image_width, image_height)
    /\ main_pc' = "done"
    /\ UNCHANGED <<image_width, image_height, tile_width, tile_height, tiles, tile_pc,
                   call_vars>>
    /\ UNCHANGED <<threads, tiles_queue, senders, channel, colors, workers>>
    /\ UNCHANGED <<popped, rendered, sent, received, writes>>
    /\ UNCHANGED <<scene_vars, query_vars, render_vars>>

\* The main thread and the worker threads
MainThread ==
    RenderTile \/ NewQueue \/ Spawn \/ DropSender \/ Receive \/ Disconnected \/ WritePpm

WorkerThread(w) == Pop(w) \/ RenderPixels(w) \/ Send(w)

RenderNext == MainThread \/ \E w \in 1..MaxThreads : WorkerThread(w)

SpecRender == RenderInit /\ [][RenderNext]_vars

\* The operating system schedules every thread that can take a step.
SpecRenderFair ==
    /\ RenderInit /\ [][RenderNext]_vars
    /\ WF_vars(MainThread)
    /\ \A w \in 1..MaxThreads : WF_vars(WorkerThread(w))

(***************************************************************************)
(* Claims about Renderer::render                                           *)
(***************************************************************************)
\* How often the tile with index i has arrived at the merging thread
RECURSIVE Arrivals(_, _)
Arrivals(i, k) ==
    IF k > Len(received) THEN 0
    ELSE (IF received[k] = i THEN 1 ELSE 0) + Arrivals(i, k + 1)

\* The receive loop has ended
Merged == main_pc \in {"write", "done"}

\* C11: for any number of worker threads and any interleaving, every tile
\* placed on the work queue is popped by exactly one worker, rendered exactly
\* once, and exactly one message for it is sent to and received by the merging
\* thread: no tile is popped, rendered, sent or received twice at any time,
\* and when the receive loop has ended none has been skipped.
C11_EveryTileExactlyOnce ==
    /\ \A i \in DOMAIN popped :
          /\ Len(popped[i]) <= 1 /\ rendered[i] <= 1 /\ sent[i] <= 1
          /\ Arrivals(i, 1) <= 1
    /\ Merged =>
          \A i \in 1..Len(tiles) :
             /\ Len(popped[i]) = 1 /\ rendered[i] = 1 /\ sent[i] = 1
             /\ Arrivals(i, 1) = 1

\* C12: for every value of `threads` and every interleaving, write_ppm starts
\* only after every tile has been rendered and merged: when the main thread is
\* at write_ppm (or past it) every tile has been rendered and received, and
\* each pixel (x, y) of the W x H framebuffer has been written exactly once,
\* with the colour at tile-local position (x - x_coord_start, y - y_coord_start)
\* of the unique tile containing it.
C12_WritePpmAfterEveryTileMerged ==
    Merged =>
       /\ \A i \in 1..Len(tiles) : rendered[i] = 1 /\ Arrivals(i, 1) = 1
       /\ \A x \in 0..(image_width - 1), y \in 0..(image_height - 1) :
             /\ writes[y * image_width + x + 1] = 1
             /\ \E i \in 1..Len(tiles) :
                   /\ TileContains(tiles[i], x, y)
                   /\ \A j \in 1..Len(tiles) : TileContains(tiles[j], x, y) => j = i
                   /\ colors.colors[y * image_width + x + 1] =
                         RenderTilePixels(
                             tiles[i],
                             ImageColors_new(tiles[i].width, tiles[i].height), 0
                         ).colors[(y - tiles[i].y_coord_start) * tiles[i].width
                                  + (x - tiles[i].x_coord_start) + 1]

\* The framebuffer as a function of the arguments of render alone: the colour
\* of every pixel when there is a worker, the framebuffer of ImageColors::new
\* when there is none.
FinalFramebuffer ==
    IF threads = 0 THEN ImageColors_new(image_width, image_height)
    ELSE [colors |-> [i \in 1..(image_width * image_height) |->
                         Renderer_get_color(
                             PixelCoordinates_new((i - 1) % image_width,
                                                  (i - 1) \div image_width))],
          image_width |-> image_width]

\* C13: given fixed per-pixel colours, the final framebuffer is identical for
\* every assignment of tiles to workers and every order in which the messages
\* arrive: when the receive loop has ended the framebuffer is the one the
\* arguments of render determine, and write_ppm writes that framebuffer.
C13_FramebufferDeterministic ==
    /\ Merged => colors = FinalFramebuffer
    /\ main_pc = "done" => ppm = write_ppm(FinalFramebuffer, image_width, image_height)

\* C13's case: render has finished; two tiles were rendered by different
\* workers and the later one of the queue arrived first.
C13_Witness ==
    /\ main_pc = "done"
    /\ \E a, b \in 1..Len(received) :
          /\ a < b /\ received[a] > received[b]
          /\ popped[received[a]] # popped[received[b]]
    /\ \E i \in DOMAIN colors.colors : colors.colors[i] # Black

\* C14: under fair scheduling render never deadlocks, for every thread count
\* and tile count: eventually every worker has found the queue empty and has
\* exited, every Sender clone is dropped, the receive loop has ended and
\* write_ppm has run.
C14_RenderReachesPpm ==
    <>( /\ main_pc = "done"
        /\ senders = 0
        /\ Len(workers) = threads
        /\ \A w \in DOMAIN workers : workers[w].pc = "returned" )

(***************************************************************************)
(* One call of Aabb::union or of hash, for every pair of optional boxes    *)
(* and every ray within the bounds.                                        *)
(***************************************************************************)
\* `Some(Aabb::new(min, max))` for every min and max with coordinates in
\* 0..MaxCoordinate (boxes with min > max on some axis among them), and None
OptionBoxes ==
    {None} \cup { Some(Aabb_new(mn, mx)) :
                     mn \in [1..DIMENSIONS -> 0..MaxCoordinate],
                     mx \in [1..DIMENSIONS -> 0..MaxCoordinate] }

\* The components of the rays that are hashed, and their times
HashComponents == {-1, 0, 1, 3}
HashTimes == {0, 1}

\* `Ray::new(origin, direction, time)`
Ray_new_at(origin, direction, time) ==
    [origin |-> origin, direction |-> direction, time |-> time]

HashRays ==
    { Ray_new_at(o, d, t) :
         o \in [1..3 -> HashComponents], d \in [1..3 -> HashComponents], t \in HashTimes }

\* The boxes Aabb::hit is called on (min <= max on every axis, some of them
\* flat), the rays (every combination of direction components 1, -1 and 0,
\* origins before, on, inside and behind the box) and the intervals
HitBoxes == { Aabb_new(<<0, 0, 0>>, mx) : mx \in [1..DIMENSIONS -> {0, 2}] }
HitRays ==
    { Ray_new(o, d) : o \in [1..DIMENSIONS -> -1..3], d \in [1..DIMENSIONS -> -1..1] }
HitIntervals == { <<0, Infinity>>, <<0, 1>>, <<2, 4>> }

\* The nodes of the Bvh over n cubes
NodesOver(n) ==
    BvhNode_new([i \in 1..n |-> CubeW], [i \in 1..HelperCalls(n) |-> 0], <<>>).nodes

CallInit ==
    /\ \/ fn = "Aabb::union" /\ args \in OptionBoxes \X OptionBoxes
       \/ fn = "go_up_level"
          /\ \E n \in 1..MaxLeaves :
                args \in { <<NodesOver(n), start, level>> :
                              start \in 0..(Len(NodesOver(n)) - 1),
                              level \in 0..MaxLevel }
       \/ fn = "hash" /\ args \in { <<r>> : r \in HashRays }
       \/ fn = "Aabb::hit"
          /\ args \in { <<b, r, iv[1], iv[2]>> :
                          b \in HitBoxes, r \in HitRays, iv \in HitIntervals }
    /\ shade = ShadeIdle
    /\ ret = None
    /\ image_width = 0 /\ image_height = 0 /\ tile_width = 1 /\ tile_height = 1
    /\ tiles = <<>> /\ tile_pc = "idle"
    /\ PipelineIdle
    /\ SceneIdle /\ QueryIdle /\ RenderIdle

\* `Aabb::union(&box0, &box1)`
CallUnion ==
    /\ fn = "Aabb::union" /\ ~IsSome(ret)
    /\ ret' = Some(Aabb_union(args[1], args[2]))
    /\ UNCHANGED <<fn, args, shade>>
    /\ UNCHANGED <<image_width, image_height, tile_width, tile_height, tiles, tile_pc,
                   pipeline_vars>>
    /\ UNCHANGED <<scene_vars, query_vars, render_vars>>

\* `hash(&ray)`
CallHash ==
    /\ fn = "hash" /\ ~IsSome(ret)
    /\ ret' = Some(hash(args[1]))
    /\ UNCHANGED <<fn, args, shade>>
    /\ UNCHANGED <<image_width, image_height, tile_width, tile_height, tiles, tile_pc,
                   pipeline_vars>>
    /\ UNCHANGED <<scene_vars, query_vars, render_vars>>

\* `aabb.hit(&ray, t_min, t_max)`
CallAabbHit ==
    /\ fn = "Aabb::hit" /\ ~IsSome(ret)
    /\ ret' = Some(Aabb_hit(args[1], args[2], args[3], args[4]))
    /\ UNCHANGED <<fn, args, shade>>
    /\ UNCHANGED <<image_width, image_height, tile_width, tile_height, tiles, tile_pc,
                   pipeline_vars>>
    /\ UNCHANGED <<scene_vars, query_vars, render_vars>>

\* `self.go_up_level(cur_node_idx, go_up_level)`
CallGoUpLevel ==
    /\ fn = "go_up_level" /\ ~IsSome(ret)
    /\ ret' = Some(Bvh_go_up_level(args[1], args[2], args[3]))
    /\ UNCHANGED <<fn, args, shade>>
    /\ UNCHANGED <<image_width, image_height, tile_width, tile_height, tiles, tile_pc,
                   pipeline_vars>>
    /\ UNCHANGED <<scene_vars, query_vars, render_vars>>

CallNext == CallUnion \/ CallHash \/ CallAabbHit \/ CallGoUpLevel

SpecCall == CallInit /\ [][CallNext]_vars

(***************************************************************************)
(* Claims about hash and Aabb::union                                       *)
(***************************************************************************)
\* s(f) = (sign << 15) | (((bits >> 25) & 0x3f) << 7) | ((bits >> 17) & 0x3f),
\* in arithmetic: the three fields do not overlap, and bit 31 of `bits` is
\* beyond the six bits either mask keeps.
FloatFingerprint(val) ==
    to_bits(val).sign * 32768
    + ((to_bits(val).low \div 33554432) % 64) * 128
    + ((to_bits(val).low \div 131072) % 64)

\* a XOR b of two 16-bit values, bit by bit from bit k on
RECURSIVE Xor16(_, _, _)
Xor16(a, b, k) ==
    IF k > 15 THEN 0
    ELSE (((a \div Pow2(k)) + (b \div Pow2(k))) % 2) * Pow2(k) + Xor16(a, b, k + 1)

\* C18: for every ray, hash(ray) depends only on the bit patterns of the six
\* origin/direction components, not on the ray's time, and equals
\* h0 | (h1 << 16) | (h2 << 32) with h0 = s(origin.x) XOR s(direction.z),
\* h1 = s(origin.y) XOR s(direction.y), h2 = s(origin.z) XOR s(direction.x):
\* the three 16-bit fields of the fingerprint are h0, h1 and h2, bits 48..63
\* are zero, and rays with the same six components have the same fingerprint.
C18_HashIsTheFingerprintFormula ==
    (fn = "hash" /\ IsSome(ret)) =>
       /\ ret.val[1] = Xor16(FloatFingerprint(args[1].origin[1]),
                             FloatFingerprint(args[1].direction[3]), 0)
       /\ ret.val[2] = Xor16(FloatFingerprint(args[1].origin[2]),
                             FloatFingerprint(args[1].direction[2]), 0)
       /\ ret.val[3] = Xor16(FloatFingerprint(args[1].origin[3]),
                             FloatFingerprint(args[1].direction[1]), 0)
       /\ \A k \in 1..3 : ret.val[k] \in 0..65535
       /\ ret.val[4] = 0
       /\ \A t \in HashTimes :
             hash(Ray_new_at(args[1].origin, args[1].direction, t)) = ret.val

\* C18's case: a hashed ray with a time other than 0, a negative component,
\* and three different 16-bit fields in its fingerprint.
C18_Witness ==
    /\ fn = "hash" /\ IsSome(ret)
    /\ args[1].time # 0
    /\ args[1].origin[1] < 0
    /\ ret.val[1] # ret.val[2] /\ ret.val[2] # ret.val[3] /\ ret.val[1] # ret.val[3]
    /\ ret.val[1] # 0 /\ ret.val[2] # 0 /\ ret.val[3] # 0

\* The point origin + t * direction is inside the three slabs of the box
InsideAt(box, ray, t) ==
    \A i \in 1..DIMENSIONS :
       /\ box.min[i] <= ray.origin[i] + t * ray.direction[i]
       /\ ray.origin[i] + t * ray.direction[i] <= box.max[i]

\* No ray of HitRays enters or leaves a box of HitBoxes beyond this parameter.
FarthestSlab == 4

\* C21: for any AABB with min <= max, any ray and any interval,
\* Aabb::hit(ray, t_min, t_max) returns true iff some t in [t_min, t_max] puts
\* origin + t * direction inside all three slabs, rays with zero direction
\* components included. (Every slab boundary is crossed at an integer
\* parameter, so a parameter exists iff an integer one does.)
C21_AabbHitIffSlabsMeet ==
    (fn = "Aabb::hit" /\ IsSome(ret)) =>
       (ret.val <=>
           \E t \in args[3]..Min2(args[4], FarthestSlab) :
              InsideAt(args[1], args[2], t))

\* The nodes on the way from a node to the root, the node first
RECURSIVE PathToRoot(_, _)
PathToRoot(nodes, i) ==
    IF IsSome(nodes[i + 1].parent)
    THEN <<i>> \o PathToRoot(nodes, nodes[i + 1].parent.val)
    ELSE <<i>>

\* C30: go_up_level(start, k) returns the ancestor of start that
\* min(k, depth(start)) parent steps lead to: start itself for k = 0, the root
\* whenever k >= depth(start), and always an index into the node array.
C30_GoUpLevelStopsAtRoot ==
    (fn = "go_up_level" /\ IsSome(ret)) =>
       LET path == PathToRoot(args[1], args[2])
           depth == Len(path) - 1
       IN  /\ ret.val = path[Min2(args[3], depth) + 1]
           /\ ret.val \in 0..(Len(args[1]) - 1)
           /\ args[3] = 0 => ret.val = args[2]
           /\ args[3] >= depth => ~IsSome(args[1][ret.val + 1].parent)
\* C30's cases: from a node two levels below the root, one level up to a node
\* that is not the root, and more levels up than there are.
C30_Witness ==
    /\ fn = "go_up_level" /\ IsSome(ret)
    /\ Len(PathToRoot(args[1], args[2])) = 3
    /\ \/ args[3] = 1 /\ IsSome(args[1][ret.val + 1].parent)
       \/ args[3] = MaxLevel

\* min <= max on every axis
WellFormed(box) == \A i \in 1..DIMENSIONS : box.min[i] <= box.max[i]

\* C20: Aabb::union(None, None) is None; union(None, Some(a)) and
\* union(Some(a), None) are Some(a); union(Some(a), Some(b)) is the box with
\* the component-wise minimum of the two mins and maximum of the two maxes; so
\* union is commutative, idempotent, contains both inputs and preserves
\* min <= max.
C20_UnionCases ==
    (fn = "Aabb::union" /\ IsSome(ret)) =>
       /\ (~IsSome(args[1]) /\ ~IsSome(args[2])) => ret.val = None
       /\ (~IsSome(args[1]) /\ IsSome(args[2])) => ret.val = args[2]
       /\ (IsSome(args[1]) /\ ~IsSome(args[2])) => ret.val = args[1]
       /\ (IsSome(args[1]) /\ IsSome(args[2])) =>
             /\ IsSome(ret.val)
             /\ \A i \in 1..DIMENSIONS :
                   /\ ret.val.val.min[i] \in {args[1].val.min[i], args[2].val.min[i]}
                   /\ ret.val.val.min[i] <= args[1].val.min[i]
                   /\ ret.val.val.min[i] <= args[2].val.min[i]
                   /\ ret.val.val.max[i] \in {args[1].val.max[i], args[2].val.max[i]}
                   /\ ret.val.val.max[i] >= args[1].val.max[i]
                   /\ ret.val.val.max[i] >= args[2].val.max[i]
             /\ Contains(ret.val.val, args[1].val)
             /\ Contains(ret.val.val, args[2].val)
             /\ (WellFormed(args[1].val) /\ WellFormed(args[2].val))
                   => WellFormed(ret.val.val)
       /\ ret.val = Aabb_union(args[2], args[1])
       /\ args[1] = args[2] => ret.val = args[1]

\* C20's case: the union of two well-formed boxes of which neither contains
\* the other.
C20_Witness ==
    /\ fn = "Aabb::union" /\ IsSome(ret)
    /\ IsSome(args[1]) /\ IsSome(args[2])
    /\ WellFormed(args[1].val) /\ WellFormed(args[2].val)
    /\ ret.val # args[1] /\ ret.val # args[2]

(***************************************************************************)
(* The render: worker threads cast rays into a world of Bvhs, some of      *)
(* which have a predictor in the registry (main.rs builds the world and    *)
(* the registry, renderer.rs spawns the workers, every world.hit of        *)
(* Ray::ray_color is a Bvh::hit on each Bvh of the world).                 *)
(***************************************************************************)
\* Bvh::with_predictor: the Bvh, and the registry with a new predictor for it.
Bvh_with_predictor(id, list, axes, bs, predictor_map) ==
    [bvh |-> Bvh_new(id, list, axes, bs),
     predictors |-> [k \in DOMAIN predictor_map \cup {id} |->
                        IF k = id THEN Predictor_new(id) ELSE predictor_map[k]]]

\* One Bvh with a predictor, over three cubes.
SceneOne(axes) ==
    LET list == <<CubeY, CubeX, CubeZ>>
        b == Bvh_with_predictor(1, list, axes, <<>>, <<>>)
    IN  [lists |-> <<list>>, bvhs |-> <<b.bvh>>, world |-> <<Bvh_ref(1)>>,
         predictors |-> Some(b.predictors)]

\* One Bvh with a predictor, over a single cube: its root is its only node.
SceneSmall(axes) ==
    LET list == <<CubeW>>
        b == Bvh_with_predictor(1, list, axes, <<>>, <<>>)
    IN  [lists |-> <<list>>, bvhs |-> <<b.bvh>>, world |-> <<Bvh_ref(1)>>,
         predictors |-> Some(b.predictors)]

\* A Bvh with a predictor that is a leaf of another Bvh with a predictor.
SceneNested(axes) ==
    LET inner_list == <<CubeY, CubeX, CubeZ>>
        inner == Bvh_with_predictor(1, inner_list, axes, <<>>, <<>>)
        outer_list == <<Bvh_ref(1), CubeW, CubeW>>
        outer == Bvh_with_predictor(2, outer_list, axes, <<inner.bvh>>, inner.predictors)
    IN  [lists |-> <<inner_list, outer_list>>, bvhs |-> <<inner.bvh, outer.bvh>>,
         world |-> <<Bvh_ref(2)>>, predictors |-> Some(outer.predictors)]

\* The scene functions of main.rs that return (world, None).
SceneNoRegistry(axes) ==
    LET list == <<CubeY, CubeX, CubeZ>>
    IN  [lists |-> <<list>>, bvhs |-> <<Bvh_new(1, list, axes, <<>>)>>,
         world |-> <<Bvh_ref(1)>>, predictors |-> None]

\* A Bvh built by Bvh::new beside a Bvh built by Bvh::with_predictor.
SceneNoEntry(axes) ==
    LET plain_list == <<CubeY, CubeX, CubeZ>>
        plain == Bvh_new(1, plain_list, axes, <<>>)
        list == <<CubeW, CubeW, CubeW>>
        b == Bvh_with_predictor(2, list, axes, <<plain>>, <<>>)
    IN  [lists |-> <<plain_list, list>>, bvhs |-> <<plain, b.bvh>>,
         world |-> <<Bvh_ref(1), Bvh_ref(2)>>, predictors |-> Some(b.predictors)]

\* The axes the invocations of new_helper draw when the scenes are built: the
\* cubes are split along x.
SceneAxes == <<0, 0, 0>>

Scenes ==
    { SceneOne(SceneAxes), SceneSmall(SceneAxes), SceneNested(SceneAxes),
      SceneNoRegistry(SceneAxes), SceneNoEntry(SceneAxes) }

\* The rays the workers cast and the intervals they cast them with.
CastRays == { RayA, RayB, RayC }
CastIntervals == { <<0, Infinity>> }

\* `predictor_map.get(&self.id)` on the registry: the key of the mutex found.
\* The mutant hands out whatever predictor the registry holds.
Registry_get_any(registry, id) ==
    IF IsSome(registry) /\ DOMAIN registry.val # {}
    THEN Some(CHOOSE k \in DOMAIN registry.val : TRUE) ELSE None

Registry_get(registry, id) ==
    IF IsSome(registry) /\ id \in DOMAIN registry.val THEN Some(id) ELSE None

\* Mutex<Predictor>: lock() returns when no thread owns the mutex.
\* The mutant lets a thread in while another owns it.
MutexFreeAlways(m, id) == TRUE

MutexFree(m, id) == m[id] = "free"

\* drop(predictor): the guard gives the mutex back.
\* The mutant keeps it.
UnlockLeaked(m, id) == m

Unlock(m, id) == [m EXCEPT ![id] = "free"]

\* The counter each `+= 1` of Bvh::hit adds to.
\* The mutant counts a false positive as a missing prediction.
CounterOfMixed(site) ==
    IF site = "tp" THEN "true_positive_predictions" ELSE "no_predictions"

CounterOf(site) ==
    IF site = "tp" THEN "true_positive_predictions"
    ELSE IF site = "fp" THEN "false_positive_predictions"
    ELSE "no_predictions"

\* `self.nodes[predicted_index]`: the node the traversal of a prediction starts at.
\* The mutant starts at the root.
PredictedStartRoot(bvh, predicted_index) == bvh.root_index

PredictedStart(bvh, predicted_index) == predicted_index

\* `self.go_up_level(leaf_node.0, 0)`: the node a prediction is made of.
\* The mutant goes up one level.
PredictedNodeParent(bvh, leaf_node) == go_up_level(bvh.nodes, leaf_node, 1)

PredictedNode(bvh, leaf_node) == go_up_level(bvh.nodes, leaf_node, 0)

\* An invocation of Bvh::hit: its arguments, its position (pc, and the lock
\* site `site` it is at or has last passed: get, tp, fp, np, insert), its local
\* variables, and what it has done so far (entry_at_lookup: whether the table
\* held the ray's fingerprint when it looked it up; incremented: the counters it
\* has written, with the change of their value; root_traversals; inserted;
\* touched: whether it has locked a predictor).
Frame_new(registry, id, ray, t_min, t_max) ==
    LET this_bvh_predictor_maybe == Registry_get(registry, id)
    IN  [bvh |-> id, ray |-> ray, t_min |-> t_min, t_max |-> t_max,
         predictor_mtx |-> this_bvh_predictor_maybe,
         pc |-> IF IsSome(this_bvh_predictor_maybe) THEN "lock" ELSE "plain",
         site |-> "get", entry_at_lookup |-> FALSE,
         predicted_node_indices |-> None, next |-> 1,
         closest_so_far |-> t_max, closest |-> None,
         answers |-> <<>>, hit |-> None, result |-> None, loaded |-> 0,
         incremented |-> <<>>, root_traversals |-> 0, inserted |-> None,
         touched |-> FALSE]

Top(t) == stack[t][Len(stack[t])]
SetTop(t, frame) == [stack EXCEPT ![t] = [@ EXCEPT ![Len(@)] = frame]]
Push(t, frame) == [stack EXCEPT ![t] = Append(@, frame)]
At(t, pc) == stack[t] # <<>> /\ Top(t).pc = pc

Init ==
    /\ \E scene \in Scenes :
          /\ lists = scene.lists /\ bvhs = scene.bvhs
          /\ world = scene.world /\ predictors = scene.predictors
          /\ mutex = IF IsSome(scene.predictors)
                     THEN [id \in DOMAIN scene.predictors.val |-> "free"] ELSE <<>>
          /\ hit_calls = [id \in 1..Len(scene.bvhs) |-> 0]
    /\ stack = [t \in Workers |-> <<>>] /\ calls = 0
    /\ found = {}
    /\ TileIdle /\ QueryIdle

\* Ray::ray_color: `world.hit(&self, 0.001, INFINITY)` reaches Bvh::hit of a Bvh
\* of the world (lines 108-113 of Bvh::hit look the predictor up).
CallHit(t) ==
    /\ stack[t] = <<>> /\ calls < MaxCalls
    /\ \E i \in 1..Len(world), ray \in CastRays, iv \in CastIntervals :
          /\ stack' = Push(t, Frame_new(predictors, world[i].id, ray, iv[1], iv[2]))
          /\ hit_calls' = [hit_calls EXCEPT ![world[i].id] = @ + 1]
    /\ calls' = calls + 1
    /\ UNCHANGED <<world, predictors, mutex, found, tile_vars, scene_vars, query_vars>>

\* `predictor_mtx.lock().unwrap()` by the invocation on top of t's stack
Lock(t) ==
    /\ MutexFree(mutex, Top(t).predictor_mtx.val)
    /\ mutex' = [mutex EXCEPT ![Top(t).predictor_mtx.val] = t]

\* `let predictor = predictor_mtx.lock().unwrap();`
\* `let predicted_node_idx = predictor.get_predictions(ray).cloned();`
GetPredictions(t) ==
    /\ At(t, "lock") /\ Top(t).site = "get"
    /\ Lock(t)
    /\ LET self == Top(t)
           predictor == predictors.val[self.predictor_mtx.val]
       IN  stack' = SetTop(t, [self EXCEPT !.pc = "drop", !.touched = TRUE,
                   !.entry_at_lookup = hash(self.ray) \in DOMAIN predictor.prediction_table,
                   !.predicted_node_indices = Predictor_get_predictions(predictor, self.ray)])
    /\ UNCHANGED <<world, predictors, calls, hit_calls, found, tile_vars, scene_vars, query_vars>>

\* `let mut predictor = predictor_mtx.lock().unwrap();` and the read of
\* `predictor.<counter> += 1`
LoadCounter(t) ==
    /\ At(t, "lock") /\ Top(t).site \in {"tp", "fp", "np"}
    /\ Lock(t)
    /\ LET self == Top(t)
           predictor == predictors.val[self.predictor_mtx.val]
       IN  stack' = SetTop(t, [self EXCEPT !.pc = "store", !.touched = TRUE,
                                           !.loaded = predictor[CounterOf(self.site)]])
    /\ UNCHANGED <<world, predictors, calls, hit_calls, found, tile_vars, scene_vars, query_vars>>

\* `predictor.<counter> += 1`: the write
StoreCounter(t) ==
    /\ At(t, "store")
    /\ LET self == Top(t)
           id == self.predictor_mtx.val
           counter == CounterOf(self.site)
       IN  /\ predictors' = [predictors EXCEPT !.val[id][counter] = self.loaded + 1]
           /\ stack' = SetTop(t, [self EXCEPT !.pc = "drop",
                   !.incremented = Append(@, <<counter,
                                              self.loaded + 1 - predictors.val[id][counter]>>)])
    /\ UNCHANGED <<world, mutex, calls, hit_calls, found, tile_vars, scene_vars, query_vars>>

\* `let mut predictor = predictor_mtx.lock().unwrap();`
\* `predictor.insert(ray, predicted_node_idx);`
Insert(t) ==
    /\ At(t, "lock") /\ Top(t).site = "insert"
    /\ Lock(t)
    /\ LET self == Top(t)
           id == self.predictor_mtx.val
           predicted_node_idx == PredictedNode(bvhs[self.bvh], self.hit.val.leaf)
       IN  /\ predictors' = [predictors EXCEPT
                   !.val[id] = Predictor_insert(@, self.ray, predicted_node_idx)]
           /\ stack' = SetTop(t, [self EXCEPT !.pc = "drop", !.touched = TRUE,
                   !.inserted = Some(<<hash(self.ray), predicted_node_idx>>)])
    /\ UNCHANGED <<world, calls, hit_calls, found, tile_vars, scene_vars, query_vars>>

\* The mutant goes on to the traversal from the root without counting the
\* missing prediction.
AfterDropUncounted(self) ==
    IF self.site = "get"
    THEN IF IsSome(self.predicted_node_indices)
         THEN [self EXCEPT !.pc = "predicted", !.next = 1,
                           !.closest_so_far = self.t_max, !.closest = None]
         ELSE [self EXCEPT !.pc = "root", !.site = "np"]
    ELSE IF self.site = "tp"
    THEN [self EXCEPT !.pc = "return", !.result = Some(self.closest.val.rec)]
    ELSE IF self.site = "insert"
    THEN [self EXCEPT !.pc = "return", !.result = Some(self.hit.val.rec)]
    ELSE [self EXCEPT !.pc = "root"]

\* Where Bvh::hit goes on after each `drop(predictor)`.
AfterDrop(self) ==
    IF self.site = "get"
    THEN IF IsSome(self.predicted_node_indices)
         THEN [self EXCEPT !.pc = "predicted", !.next = 1,
                           !.closest_so_far = self.t_max, !.closest = None]
         ELSE [self EXCEPT !.pc = "lock", !.site = "np"]
    ELSE IF self.site = "tp"
    THEN [self EXCEPT !.pc = "return", !.result = Some(self.closest.val.rec)]
    ELSE IF self.site = "insert"
    THEN [self EXCEPT !.pc = "return", !.result = Some(self.hit.val.rec)]
    ELSE [self EXCEPT !.pc = "root"]

\* `drop(predictor);`
Drop(t) ==
    /\ At(t, "drop")
    /\ mutex' = Unlock(mutex, Top(t).predictor_mtx.val)
    /\ stack' = SetTop(t, AfterDrop(Top(t)))
    /\ UNCHANGED <<world, predictors, calls, hit_calls, found, tile_vars, scene_vars, query_vars>>

\* A traversal reaches a leaf that is a Bvh: `hittable.hit(ray, t_min, t_max, &predictors)`
Enter(t, call) ==
    /\ stack' = Push(t, Frame_new(predictors, call.bvh, Top(t).ray, call.t_min, call.t_max))
    /\ hit_calls' = [hit_calls EXCEPT ![call.bvh] = @ + 1]
    /\ UNCHANGED found

\* The mutant returns the miss of a false positive.
AfterPredictedGivesUp(self) ==
    IF self.next <= Len(self.predicted_node_indices.val) THEN self
    ELSE IF IsSome(self.closest) THEN [self EXCEPT !.pc = "lock", !.site = "tp"]
    ELSE [self EXCEPT !.pc = "return", !.result = None]

\* The loop over the predicted nodes, after the last of them: a true positive
\* or a false positive.
AfterPredicted(self) ==
    IF self.next <= Len(self.predicted_node_indices.val) THEN self
    ELSE IF IsSome(self.closest) THEN [self EXCEPT !.pc = "lock", !.site = "tp"]
    ELSE [self EXCEPT !.pc = "lock", !.site = "fp"]

\* `self.nodes[predicted_index].hit(ray, t_min, closest_so_far, &self.nodes, &predictors)`
TraversePredicted(t) ==
    /\ At(t, "predicted")
    /\ LET self == Top(t)
           bvh == bvhs[self.bvh]
           predicted_index == self.predicted_node_indices.val[self.next]
           r == BvhNode_hit(bvh.nodes, PredictedStart(bvh, predicted_index), self.ray,
                            self.t_min, self.closest_so_far, self.answers)
       IN  IF r.status = "call" THEN Enter(t, r)
           ELSE /\ stack' = SetTop(t, AfterPredicted(
                       IF IsSome(r.hit)
                       THEN [self EXCEPT !.next = @ + 1, !.answers = <<>>,
                                         !.closest_so_far = r.hit.val.rec.t,
                                         !.closest = r.hit]
                       ELSE [self EXCEPT !.next = @ + 1, !.answers = <<>>]))
                /\ UNCHANGED <<hit_calls, found>>
    /\ UNCHANGED <<world, predictors, mutex, calls, tile_vars, scene_vars, query_vars>>

\* After the traversal from the root in the paths with a predictor: `None => None`
\* and `?` return the miss, `assert!(self.nodes[leaf_node_idx.0].parent.is_some())`
\* panics in the path without a prediction, and a hit goes on to the insertion.
AfterRoot(self, bvh, hit) ==
    LET done == [self EXCEPT !.hit = hit, !.answers = <<>>, !.root_traversals = @ + 1]
    IN  IF ~IsSome(hit) THEN [done EXCEPT !.pc = "return", !.result = None]
        ELSE IF self.site = "np" /\ ~IsSome(bvh.nodes[hit.val.leaf + 1].parent)
        THEN [done EXCEPT !.pc = "panicked"]
        ELSE [done EXCEPT !.pc = "lock", !.site = "insert"]

\* `self.nodes[self.root_index].hit(ray, t_min, t_max, &self.nodes, predictors)`
\* after a false positive or without a prediction
TraverseRoot(t) ==
    /\ At(t, "root")
    /\ LET self == Top(t)
           bvh == bvhs[self.bvh]
           r == BvhNode_hit(bvh.nodes, bvh.root_index, self.ray, self.t_min, self.t_max,
                            self.answers)
       IN  IF r.status = "call" THEN Enter(t, r)
           ELSE /\ stack' = SetTop(t, AfterRoot(self, bvh, r.hit))
                /\ found' = IF IsSome(r.hit)
                            THEN found \cup {<<self.bvh, hash(self.ray), r.hit.val.leaf>>}
                            ELSE found
                /\ UNCHANGED hit_calls
    /\ UNCHANGED <<world, predictors, mutex, calls, tile_vars, scene_vars, query_vars>>

\* "No predictor for this BVH. Simply traverse the tree and get the result."
TraversePlain(t) ==
    /\ At(t, "plain")
    /\ LET self == Top(t)
           bvh == bvhs[self.bvh]
           r == BvhNode_hit(bvh.nodes, bvh.root_index, self.ray, self.t_min, self.t_max,
                            self.answers)
       IN  IF r.status = "call" THEN Enter(t, r)
           ELSE /\ stack' = SetTop(t, [self EXCEPT !.pc = "return", !.hit = r.hit,
                                           !.answers = <<>>, !.result = RecordOf(r.hit)])
                /\ UNCHANGED <<hit_calls, found>>
    /\ UNCHANGED <<world, predictors, mutex, calls, tile_vars, scene_vars, query_vars>>

\* Bvh::hit returns: to the traversal that called it, or to ray_color.
Return(t) ==
    /\ At(t, "return")
    /\ LET n == Len(stack[t])
           result == Top(t).result
       IN  stack' = [stack EXCEPT ![t] =
               IF n = 1 THEN <<>>
               ELSE [SubSeq(@, 1, n - 1) EXCEPT ![n - 1].answers = Append(@, result)]]
    /\ UNCHANGED <<world, predictors, mutex, calls, hit_calls, found, tile_vars, scene_vars, query_vars>>

Next ==
    \E t \in Workers :
        \/ CallHit(t)
        \/ GetPredictions(t)
        \/ LoadCounter(t)
        \/ StoreCounter(t)
        \/ Insert(t)
        \/ Drop(t)
        \/ TraversePredicted(t)
        \/ TraverseRoot(t)
        \/ TraversePlain(t)
        \/ Return(t)

Spec == Init /\ [][Next]_vars

(***************************************************************************)
(* Properties of the render.                                               *)
(***************************************************************************)
\* The cubes below node k of a Bvh, those of the Bvhs that are its leaves included
RECURSIVE SubtreeCubes(_, _, _)
RECURSIVE ChildCubes(_, _, _)
ChildCubes(bs, nodes, child) ==
    IF child.tag = "Index" THEN SubtreeCubes(bs, nodes, child.i)
    ELSE IF child.hittable.kind = "Bvh"
    THEN SubtreeCubes(bs, bs[child.hittable.id].nodes, bs[child.hittable.id].root_index)
    ELSE {child.hittable}

SubtreeCubes(bs, nodes, k) ==
    ChildCubes(bs, nodes, nodes[k + 1].left) \cup ChildCubes(bs, nodes, nodes[k + 1].right)

\* No leaf of the Bvh is a Bvh
Flat(bvh) ==
    \A k \in 1..Len(bvh.nodes) :
        /\ bvh.nodes[k].left.tag = "Hittable" => bvh.nodes[k].left.hittable.kind # "Bvh"
        /\ bvh.nodes[k].right.tag = "Hittable" => bvh.nodes[k].right.hittable.kind # "Bvh"

\* C2: an invocation of Bvh::hit on a Bvh with a predictor adds 1 to exactly one
\* counter: no_predictions iff the table had no entry for the ray's fingerprint
\* at the lookup, true_positive_predictions iff it had one and the traversal
\* from the predicted node hit, false_positive_predictions iff it had one and
\* that traversal missed.
C2_OneCounterPerInvocation ==
    \A t \in Workers : \A i \in 1..Len(stack[t]) :
        LET f == stack[t][i]
        IN  IsSome(f.predictor_mtx) =>
              /\ Len(f.incremented) <= 1
              /\ f.pc \in {"root", "return", "panicked"} => Len(f.incremented) = 1
              /\ Len(f.incremented) = 1 =>
                    /\ f.incremented[1][2] = 1
                    /\ f.incremented[1][1] = "no_predictions" <=> ~f.entry_at_lookup
                    /\ f.incremented[1][1] = "true_positive_predictions"
                           <=> (f.entry_at_lookup /\ IsSome(f.closest))
                    /\ f.incremented[1][1] = "false_positive_predictions"
                           <=> (f.entry_at_lookup /\ ~IsSome(f.closest))

\* An invocation returns after a true positive, on a predictor that has counted
\* a false positive and a missing prediction before.
C2_Witness ==
    \E t \in Workers :
        /\ At(t, "return")
        /\ Top(t).incremented = << <<"true_positive_predictions", 1>> >>
        /\ predictors.val[Top(t).bvh].false_positive_predictions > 0
        /\ predictors.val[Top(t).bvh].no_predictions > 0

\* C3: after a true positive Bvh::hit returns the hit of the traversal from the
\* predicted node: a crossing of the ray with an object below that node, at a
\* parameter in [t_min, t_max], and it has not traversed from the root.
C3_TruePositiveReturnsPredictedHit ==
    \A t \in Workers : \A i \in 1..Len(stack[t]) :
        LET f == stack[t][i]
        IN  (f.pc = "return" /\ f.entry_at_lookup /\ IsSome(f.closest)) =>
              /\ f.result = Some(f.closest.val.rec)
              /\ f.root_traversals = 0
              /\ f.t_min <= f.result.val.t /\ f.result.val.t <= f.t_max
              /\ \E cube \in SubtreeCubes(bvhs, bvhs[f.bvh].nodes,
                                          f.predicted_node_indices.val[1]) :
                    /\ cube.material = f.result.val.material
                    /\ f.result.val.t \in CubeCrossings(cube, f.ray, f.t_min, f.t_max)
              /\ Flat(bvhs[f.bvh]) =>
                    f.result = RecordOf(BvhNode_hit(bvhs[f.bvh].nodes,
                                   f.predicted_node_indices.val[1], f.ray, f.t_min,
                                   f.t_max, <<>>).hit)

\* A true positive returns the cube of the predicted node although the ray
\* meets a cube outside the predicted node first.
C3_Witness ==
    \E t \in Workers :
        /\ At(t, "return") /\ Top(t).entry_at_lookup /\ IsSome(Top(t).closest)
        /\ \E cube \in SubtreeCubes(bvhs, bvhs[Top(t).bvh].nodes,
                                    bvhs[Top(t).bvh].root_index) :
              \E c \in CubeCrossings(cube, Top(t).ray, Top(t).t_min, Top(t).t_max) :
                  c < Top(t).result.val.t

\* C4: an invocation of Bvh::hit with a predictor that traverses from the root
\* returns the result of that traversal; after a hit it has inserted the ray's
\* fingerprint with the leaf node of the hit, after a miss it has inserted
\* nothing.
C4_FullTraversalReturnsAndInserts ==
    \A t \in Workers : \A i \in 1..Len(stack[t]) :
        LET f == stack[t][i]
        IN  (IsSome(f.predictor_mtx) /\ f.root_traversals > 0) =>
              /\ f.pc # "panicked"
              /\ f.pc = "return" =>
                    /\ f.result = RecordOf(f.hit)
                    /\ IsSome(f.hit) => f.inserted = Some(<<hash(f.ray), f.hit.val.leaf>>)
                    /\ ~IsSome(f.hit) => f.inserted = None

\* C5: a thread owns a predictor's mutex only between a lock and the drop that
\* follows it, in the invocation on top of its stack: it owns none while that
\* invocation traverses, and never two.
C5_NoLockWhileTraversing ==
    \A t \in Workers :
        /\ Cardinality({id \in DOMAIN mutex : mutex[id] = t}) <= 1
        /\ \A id \in DOMAIN mutex :
              mutex[id] = t =>
                 /\ stack[t] # <<>>
                 /\ Top(t).pc \in {"store", "drop"}
                 /\ Top(t).predictor_mtx = Some(id)
        /\ (stack[t] # <<>> /\ Top(t).pc \in {"predicted", "root", "plain", "return"}) =>
              \A id \in DOMAIN mutex : mutex[id] # t

\* A thread owns the mutex of a Bvh that is a leaf of the Bvh its outer
\* invocation is traversing, while another thread owns the mutex of the outer Bvh.
C5_Witness ==
    \E t, u \in Workers :
        /\ t # u /\ Len(stack[t]) = 2
        /\ stack[t][1].pc \in {"predicted", "root"}
        /\ mutex[stack[t][2].bvh] = t
        /\ mutex[stack[t][1].bvh] = u

\* C6: once every invocation of Bvh::hit on a Bvh with a predictor has
\* returned, the three counters of the predictor add up to the number of
\* invocations made on that Bvh.
C6_NoLostIncrement ==
    IsSome(predictors) =>
        \A id \in DOMAIN predictors.val :
            (\A t \in Workers : \A i \in 1..Len(stack[t]) : stack[t][i].bvh # id) =>
                predictors.val[id].true_positive_predictions
                  + predictors.val[id].false_positive_predictions
                  + predictors.val[id].no_predictions = hit_calls[id]

\* Every ray has been cast and every invocation has returned; the predictor has
\* counted predictions of all three kinds.
C6_Witness ==
    /\ IsSome(predictors) /\ calls = MaxCalls
    /\ \A t \in Workers : stack[t] = <<>>
    /\ \E id \in DOMAIN predictors.val :
          /\ hit_calls[id] = MaxCalls
          /\ predictors.val[id].true_positive_predictions > 0
          /\ predictors.val[id].false_positive_predictions > 0
          /\ predictors.val[id].no_predictions > 0

\* C7: every value of a prediction table is an index into the nodes of its Bvh,
\* of a node with a hittable child, at which a traversal from the root has
\* found a hit for a ray with that fingerprint.
C7_TableHoldsFoundLeaves ==
    IsSome(predictors) =>
        \A id \in DOMAIN predictors.val :
            \A key \in DOMAIN predictors.val[id].prediction_table :
                LET v == predictors.val[id].prediction_table[key]
                    nodes == bvhs[id].nodes
                IN  /\ v \in 0..(Len(nodes) - 1)
                    /\ nodes[v + 1].left.tag = "Hittable" \/ nodes[v + 1].right.tag = "Hittable"
                    /\ <<id, key, v>> \in found

\* Two threads have both missed on the same fingerprint and both inserted, each
\* another leaf node; the table holds one of the two.
C7_Witness ==
    \E t, u \in Workers :
        /\ t # u /\ stack[t] # <<>> /\ stack[u] # <<>>
        /\ Top(t).bvh = Top(u).bvh
        /\ ~Top(t).entry_at_lookup /\ ~Top(u).entry_at_lookup
        /\ IsSome(Top(t).inserted) /\ IsSome(Top(u).inserted)
        /\ Top(t).inserted.val[1] = Top(u).inserted.val[1]
        /\ Top(t).inserted.val[2] # Top(u).inserted.val[2]
        /\ predictors.val[Top(t).bvh].prediction_table[Top(t).inserted.val[1]]
               = Top(t).inserted.val[2]

\* C8: an invocation of Bvh::hit on a Bvh the registry has no predictor for (the
\* registry is None, or holds no entry for the id) locks no predictor, writes no
\* counter and inserts nothing, and it returns the result of the plain
\* traversal from the root.
C8_NoPredictorPlainTraversal ==
    \A t \in Workers : \A i \in 1..Len(stack[t]) :
        LET f == stack[t][i]
        IN  (~IsSome(predictors) \/ f.bvh \notin DOMAIN predictors.val) =>
              /\ ~f.touched /\ f.incremented = <<>> /\ f.inserted = None
              /\ f.pc \in {"plain", "return"}
              /\ (f.pc = "return" /\ Flat(bvhs[f.bvh])) =>
                    f.result = Bvh_hit_plain(bvhs, f.bvh, f.ray, f.t_min, f.t_max, <<>>)

\* A Bvh without an entry returns a hit, in a world whose registry holds the
\* predictor of another Bvh that has been used.
C8_Witness ==
    \E t \in Workers :
        /\ At(t, "return") /\ IsSome(Top(t).result)
        /\ IsSome(predictors) /\ Top(t).bvh \notin DOMAIN predictors.val
        /\ \E id \in DOMAIN predictors.val : predictors.val[id].no_predictions > 0


(***************************************************************************)
(* The shading kernel (ray.rs, Ray::ray_color). Colours are in tenths, an  *)
(* attenuation is a whole factor per channel. What the world and the       *)
(* materials answer is not computed: every answer they can give is taken.  *)
(***************************************************************************)
DVec3_ZERO == <<0, 0, 0>>
VecMul(a, b) == [i \in 1..DIMENSIONS |-> a[i] * b[i]]
VecAdd(a, b) == [i \in 1..DIMENSIONS |-> a[i] + b[i]]

\* The materials of the surfaces in the world
Lambertian_new(albedo) == [kind |-> "Lambertian", albedo |-> albedo]
Metal_new(albedo) == [kind |-> "Metal", albedo |-> albedo]
Dialectric_new == [kind |-> "Dialectric"]
DiffuseLight_from_color(color) == [kind |-> "DiffuseLight", emission |-> color]
Materials ==
    { Lambertian_new(<<1, 0, 2>>), Metal_new(<<1, 1, 0>>), Dialectric_new,
      DiffuseLight_from_color(<<40, 40, 40>>) }

\* `material.scatter(&hit_record)`: the attenuation of the scatter record, or
\* None when the ray is absorbed. `outward` tells whether the direction a
\* metal reflects the ray into leaves the surface.
Material_scatter(material, outward) ==
    CASE material.kind = "Lambertian" -> Some(material.albedo)
      [] material.kind = "Metal" ->
            IF outward THEN Some(material.albedo) ELSE None
      [] material.kind = "Dialectric" -> Some(<<1, 1, 1>>)
      [] material.kind = "DiffuseLight" -> None

\* `material.emit(u, v, point)`: the value of the emission texture of a
\* diffuse light, black for every other material
Material_emit(material) ==
    IF material.kind = "DiffuseLight" THEN material.emission ELSE DVec3_ZERO

\* The background: (1 - t) * white + t * (0.5, 0.7, 1.0), for a ray that
\* points straight down (t = 0) or straight up (t = 1)
Background(t) == IF t = 0 THEN <<10, 10, 10>> ELSE <<5, 7, 10>>

\* `if depth <= 0`
BounceLimitBelowZero(depth) == depth < 0
BounceLimitReached(depth) == depth <= 0

ShadeInit ==
    /\ fn = "ray_color" /\ args \in { <<d>> : d \in 0..MaxDepth } /\ ret = None
    /\ shade = [pc |-> "enter", depth |-> args[1], waiting |-> <<>>,
                value |-> DVec3_ZERO, queries |-> 0, last |-> None]
    /\ image_width = 0 /\ image_height = 0 /\ tile_width = 1 /\ tile_height = 1
    /\ tiles = <<>> /\ tile_pc = "idle"
    /\ PipelineIdle /\ SceneIdle /\ QueryIdle /\ RenderIdle

ShadeUnchanged ==
    /\ UNCHANGED <<fn, args>>
    /\ UNCHANGED <<image_width, image_height, tile_width, tile_height, tiles, tile_pc,
                   pipeline_vars>>
    /\ UNCHANGED <<scene_vars, query_vars, render_vars>>

\* An invocation starts: `if depth <= 0 { return DVec3::ZERO; }`
ShadeEnter ==
    /\ shade.pc = "enter"
    /\ shade' = IF BounceLimitReached(shade.depth)
                THEN [shade EXCEPT !.pc = "return", !.value = DVec3_ZERO,
                                   !.last = None]
                ELSE [shade EXCEPT !.pc = "hit"]
    /\ UNCHANGED ret
    /\ ShadeUnchanged

\* `world.hit(&self, 0.001, f64::INFINITY)` misses: the background
ShadeMiss ==
    /\ shade.pc = "hit"
    /\ \E t \in {0, 1} :
          shade' = [shade EXCEPT !.pc = "return", !.value = Background(t),
                                 !.queries = @ + 1, !.last = None]
    /\ UNCHANGED ret
    /\ ShadeUnchanged

\* `world.hit` hits a surface: the material scatters and ray_color is called
\* for the scattered ray with depth - 1, or it does not and the invocation
\* returns DVec3::ZERO
ShadeHit ==
    /\ shade.pc = "hit"
    /\ \E material \in Materials, outward \in BOOLEAN :
          LET scatter_record == Material_scatter(material, outward) IN
          shade' =
             IF IsSome(scatter_record)
             THEN [shade EXCEPT
                      !.pc = "enter", !.depth = @ - 1, !.queries = @ + 1,
                      !.waiting = Append(@, [material |-> material,
                                             attenuation |-> scatter_record.val])]
             ELSE [shade EXCEPT
                      !.pc = "return", !.value = DVec3_ZERO, !.queries = @ + 1,
                      !.last = Some([material |-> material, scatter |-> None,
                                     scattered_color |-> DVec3_ZERO])]
    /\ UNCHANGED ret
    /\ ShadeUnchanged

\* The innermost invocation has returned `value`: the one waiting for it
\* returns `scatter_record.attenuation * value`, and the first one hands its
\* value to the caller
ShadeReturn ==
    /\ shade.pc = "return"
    /\ IF shade.waiting = <<>>
       THEN /\ shade' = [shade EXCEPT !.pc = "done"]
            /\ ret' = Some(shade.value)
       ELSE LET caller == shade.waiting[Len(shade.waiting)] IN
            /\ shade' =
                  [shade EXCEPT
                      !.depth = @ + 1,
                      !.waiting = SubSeq(@, 1, Len(@) - 1),
                      !.value = VecMul(caller.attenuation, @),
                      !.last = Some([material |-> caller.material,
                                     scatter |-> Some(caller.attenuation),
                                     scattered_color |-> shade.value])]
            /\ UNCHANGED ret
    /\ ShadeUnchanged

ShadeNext == ShadeEnter \/ ShadeMiss \/ ShadeHit \/ ShadeReturn
SpecShade == ShadeInit /\ [][ShadeNext]_vars
\* ray_color runs on one thread that nothing stops
SpecShadeFair == SpecShade /\ WF_vars(ShadeNext)

\* C22: ray_color returns black at once when depth is 0 and otherwise calls
\* itself only with depth - 1, so a call with depth d makes at most d
\* world.hit queries and always returns, whatever the materials answer.
C22_AtMostDepthQueries ==
    /\ [](/\ shade.queries <= args[1]
          /\ shade.depth + Len(shade.waiting) = args[1]
          /\ (shade.pc = "done" /\ args[1] = 0) =>
                (shade.queries = 0 /\ ret = Some(DVec3_ZERO)))
    /\ <>(shade.pc = "done")
\* A call with the greatest depth has made that many queries and returned.
C22_Witness ==
    /\ fn = "ray_color" /\ shade.pc = "done"
    /\ args[1] = MaxDepth /\ shade.queries = MaxDepth

\* C23: when the ray hits a surface whose material does not scatter,
\* ray_color returns the colour that material emits at the hit, and when the
\* material scatters it returns emitted + attenuation * ray_color(scattered
\* ray, depth - 1).
C23_EmittedPlusScattered ==
    (fn = "ray_color" /\ shade.pc \in {"return", "done"} /\ IsSome(shade.last)) =>
       shade.value =
          IF IsSome(shade.last.val.scatter)
          THEN VecAdd(Material_emit(shade.last.val.material),
                      VecMul(shade.last.val.scatter.val,
                             shade.last.val.scattered_color))
          ELSE Material_emit(shade.last.val.material)


(***************************************************************************)
(* A Bvh whose list holds another Bvh, without predictors: the traversal   *)
(* of the outer tree up to the call it makes on the Bvh below, which shows *)
(* the interval that has reached that leaf.                                *)
(***************************************************************************)
\* The lists of 2..n objects of which exactly one is the Bvh with id 1
NestedLists(n) ==
    { l \in UNION { [1..k -> Cubes \cup {Bvh_ref(1)}] : k \in 2..n } :
         Cardinality({ i \in DOMAIN l : l[i].kind = "Bvh" }) = 1 }

NestedInit ==
    /\ lists \in { <<inner, outer>> :
                      inner \in CubeLists(1), outer \in NestedLists(MaxObjects) }
    /\ bvhs = <<>>
    /\ QueryIdle
    /\ TileIdle
    /\ RenderIdle

\* `Bvh::new(inner, ..)`, then `Bvh::new(outer, ..)`
NestedBuild ==
    /\ bvh_pc = "idle" /\ bvhs = <<>>
    /\ \E axes \in AxisChoices(Len(lists[2])) :
          LET inner == Bvh_new(1, lists[1], axes, <<>>) IN
          bvhs' = <<inner, Bvh_new(2, lists[2], axes, <<inner>>)>>
    /\ bvh_pc' = "built"
    /\ UNCHANGED <<lists, q_ray, q_t_min, q_t_max, bvh_hit, list_hit, tile_vars, render_vars>>

\* `self.nodes[self.root_index].hit(ray, t_min, t_max, &self.nodes, predictors)`
\* of the outer Bvh until it returns or calls `hit` of the Bvh below
NestedQuery ==
    /\ bvh_pc = "built"
    /\ \E r \in CastRays, iv \in Intervals :
          /\ q_ray' = r /\ q_t_min' = iv[1] /\ q_t_max' = iv[2]
          /\ bvh_hit' = BvhNode_hit(bvhs[2].nodes, bvhs[2].root_index, r,
                                    iv[1], iv[2], <<>>)
    /\ bvh_pc' = "hit"
    /\ UNCHANGED <<list_hit, scene_vars, tile_vars, render_vars>>

NestedNext == NestedBuild \/ NestedQuery
SpecNested == NestedInit /\ [][NestedNext]_vars

\* The right child of the node is the Bvh below, or a node whose left child
\* is: the first object the right child's interval reaches is that Bvh.
RightLeadsToBvh(nodes, node) ==
    IF node.right.tag = "Hittable" THEN node.right.hittable.kind = "Bvh"
    ELSE /\ nodes[node.right.i + 1].left.tag = "Hittable"
         /\ nodes[node.right.i + 1].left.hittable.kind = "Bvh"

\* What the left child of the root has answered
RootLeft ==
    LET nodes == bvhs[2].nodes
        root == nodes[bvhs[2].root_index + 1]
    IN  BvhNode_hit_child(nodes, root, root.left, q_ray, q_t_min, q_t_max, q_t_max, <<>>)

\* C24: in BvhNode::hit the right child is always queried with
\* [t_min, t_max_right], t_max_right being the left hit's t when the left
\* child was hit and the caller's t_max otherwise, whether the right child is
\* a leaf object or an interior node.
C24_RightChildGetsLeftHit ==
    (/\ bvh_pc = "hit" /\ Len(bvhs) = 2 /\ bvh_hit.status = "call"
     /\ RightLeadsToBvh(bvhs[2].nodes, bvhs[2].nodes[bvhs[2].root_index + 1])
     /\ RootLeft.status = "done") =>
       /\ bvh_hit.t_min = q_t_min
       /\ bvh_hit.t_max = IF IsSome(RootLeft.hit) THEN RootLeft.hit.val.rec.t
                          ELSE q_t_max


(***************************************************************************)
(* The render with predictors: the assertion of the path without a         *)
(* prediction, the answers against the plain traversal, the table against  *)
(* the counters.                                                           *)
(***************************************************************************)
\* C25: in the path of Bvh::hit without a prediction the assertion that the
\* leaf node of a hit has a parent never fails: for every Bvh with a predictor
\* (over any number n >= 1 of objects, 1 and 2 included) and every ray that
\* hits, nodes[leaf_node_idx].parent is there and Bvh::hit does not panic.
C25_LeafOfHitHasParent ==
    \A t \in Workers : \A i \in 1..Len(stack[t]) :
        LET f == stack[t][i]
        IN  (IsSome(f.predictor_mtx) /\ f.site \in {"np", "insert"}
             /\ ~f.entry_at_lookup /\ IsSome(f.hit)) =>
               IsSome(bvhs[f.bvh].nodes[f.hit.val.leaf + 1].parent)

C29_EntriesAtMostCountedMisses ==
    IsSome(predictors) =>
       \A id \in DOMAIN predictors.val :
          Cardinality(DOMAIN predictors.val[id].prediction_table)
             <= predictors.val[id].no_predictions
                   + predictors.val[id].false_positive_predictions
\* A table with an entry that an invocation has replaced after a false
\* positive: fewer entries than counted misses.
C29_Witness ==
    /\ IsSome(predictors)
    /\ \E id \in DOMAIN predictors.val :
          /\ predictors.val[id].false_positive_predictions >= 1
          /\ Cardinality(DOMAIN predictors.val[id].prediction_table) = 1
          /\ \E t \in Workers :
                /\ stack[t] # <<>> /\ Top(t).bvh = id
                /\ Top(t).entry_at_lookup /\ IsSome(Top(t).inserted)

====
